---- MODULE Spec2Model ----
(***************************************************************************)
(* Bulk reload pipeline of backend/app/excel_loader.py:                    *)
(*   load_all_from_excel            (workbook -> trainers, training_details,*)
(*                                   employee_competency)                  *)
(*   load_manager_employee_from_csv (csv -> users, manager_employee)       *)
(* run through the two admin endpoints of backend/main.py, each inside its *)
(* own AsyncSession.  The store is a committed image (db) plus the image   *)
(* seen by the open session (tx): execute() changes tx, commit() copies tx *)
(* to db, rollback() copies db to tx.                                      *)
(***************************************************************************)
EXTENDS Integers, Sequences, FiniteSets, TLC

VARIABLES db, tx, sess, env, pc, run, pre, loc, err, log, runs, routeOps,
          lastOk

vars == <<db, tx, sess, env, pc, run, pre, loc, err, log, runs, routeOps,
          lastOk>>

\* ------------------------------------------------------------------ bounds
MaxRuns == 2        \* endpoint invocations explored
MaxRouteOps == 2    \* requests served by other routes between and during the runs

\* ------------------------------------------------------------ plain values
NoneV == "None"     \* Python None / pandas NaN in a text cell

\* Python truthiness of a text cell: None, NaN and "" are falsy
Truthy(v) == v # NoneV /\ v # ""

\* identifiers whose whitespace matters are sequences of characters; a cell
\* holding one is NaN or a string; a cell can also hold a number (read from
\* a numeric cell) or a Python bool; s is str(value)
NaNCell == [nan |-> TRUE, num |-> FALSE, bool |-> FALSE, s |-> <<>>]
Cell(s) == [nan |-> FALSE, num |-> FALSE, bool |-> FALSE, s |-> s]
NumCell(digits) == [nan |-> FALSE, num |-> TRUE, bool |-> FALSE, s |-> digits]
BoolCell(b) == [nan |-> FALSE, num |-> FALSE, bool |-> TRUE,
                s |-> IF b THEN <<"T", "r", "u", "e">>
                      ELSE <<"F", "a", "l", "s", "e">>]

\* the whitespace characters that occur
Whitespace == {" ", "\t", "\n"}

\* str.strip()
Strip(s) ==
    LET isWs(c) == c \in Whitespace
        first == IF \E i \in 1..Len(s) : ~isWs(s[i])
                 THEN CHOOSE i \in 1..Len(s) :
                        ~isWs(s[i]) /\ \A j \in 1..(i-1) : isWs(s[j])
                 ELSE 0
        last  == IF first = 0 THEN 0
                 ELSE CHOOSE i \in 1..Len(s) :
                        ~isWs(s[i]) /\ \A j \in (i+1)..Len(s) : isWs(s[j])
    IN IF first = 0 THEN <<>> ELSE SubSeq(s, first, last)

\* ----------------------------------------------------------------- schema
TargetTables == <<"trainers", "training_details", "employee_competency">>

DepTables == {"feedback_submissions", "assignment_submissions",
              "shared_feedback", "shared_assignments",
              "manager_performance_feedback", "training_attendance",
              "training_question_files", "training_solution_files",
              "training_requests", "training_assignments"}

Tables == DepTables \cup {"trainers", "training_details",
                          "employee_competency", "users", "manager_employee"}

SeqTables == {"trainers", "training_details", "employee_competency"}

\* <<child, parent>>: child has a foreign key to parent (models.py)
References ==
    {<<t, "training_details">> : t \in DepTables}
    \cup {<<"assignment_submissions", "shared_assignments">>,
          <<"feedback_submissions", "shared_feedback">>}
    \cup {<<t, "users">> : t \in (DepTables \cup {"manager_employee",
                                                  "employee_competency"})}

\* the DELETE statements as they would be with training_details cleared
\* before the tables that reference it
DeleteOrder_detailsFirst ==
    <<"training_details",
      "feedback_submissions", "assignment_submissions",
      "shared_feedback", "shared_assignments",
      "manager_performance_feedback", "training_attendance",
      "training_question_files", "training_solution_files",
      "training_requests", "training_assignments",
      "employee_competency", "trainers">>

\* the DELETE statements as they would be if the reload also cleared the
\* manager-employee relations
DeleteOrder_relationsToo ==
    <<"manager_employee",
      "feedback_submissions", "assignment_submissions",
      "shared_feedback", "shared_assignments",
      "manager_performance_feedback", "training_attendance",
      "training_question_files", "training_solution_files",
      "training_requests", "training_assignments",
      "training_details", "employee_competency", "trainers">>

\* the DELETE statements of load_all_from_excel, in program order
DeleteOrder ==
    <<"feedback_submissions", "assignment_submissions",
      "shared_feedback", "shared_assignments",
      "manager_performance_feedback", "training_attendance",
      "training_question_files", "training_solution_files",
      "training_requests", "training_assignments",
      "training_details", "employee_competency", "trainers">>

\* ------------------------------------------------------------------ store
AdminUser == [username |-> <<"b">>, hashed_password |-> <<"admin", 0>>]

\* fk: the foreign key of employee_competency.employee_empid (created by
\* create_all) is in place
InitStore ==
    [tbl |-> [t \in Tables |-> IF t = "users" THEN <<AdminUser>> ELSE <<>>],
     seq |-> [t \in SeqTables |-> 1],
     fk |-> TRUE]

CleanSess == [restarted |-> {}, aborted |-> FALSE]

Usernames(s) == {s.tbl["users"][i].username : i \in 1..Len(s.tbl["users"])}

Ids(s, t) == {s.tbl[t][i].id : i \in 1..Len(s.tbl[t])}

SetMin(S) == CHOOSE x \in S : \A y \in S : x <= y
SetMax(S) == CHOOSE x \in S : \A y \in S : x >= y

\* DELETE FROM t fails while a row of a table with a foreign key to t exists
DeleteBlocked(s, t) ==
    \E c \in Tables : <<c, t>> \in References /\ s.tbl[c] # <<>>

RECURSIVE DeleteAll(_, _)
\* runs the DELETEs of `order`; "ok" with the emptied store, or "fk" at the
\* first statement that violates a foreign key
DeleteAll(s, order) ==
    IF order = <<>> THEN [status |-> "ok", store |-> s]
    ELSE IF DeleteBlocked(s, Head(order)) THEN [status |-> "fk", store |-> s]
    ELSE DeleteAll([s EXCEPT !.tbl[Head(order)] = <<>>], Tail(order))

\* INSERT of recs into t: ids come from nextval of the table's sequence
InsertRows(s, t, recs) ==
    [s EXCEPT !.tbl[t] = s.tbl[t] \o
                 [i \in 1..Len(recs) |-> [id |-> s.seq[t] + i - 1,
                                         rec |-> recs[i]]],
              !.seq[t] = s.seq[t] + Len(recs)]

\* a rank that starts at 0 instead of 1
RowNumber_zeroBased(rows, i) ==
    Cardinality({j \in 1..Len(rows) : rows[j].id < rows[i].id})

\* UPDATE t SET id = ROW_NUMBER() OVER (ORDER BY id)
RowNumber(rows, i) ==
    Cardinality({j \in 1..Len(rows) : rows[j].id <= rows[i].id})

Renumber(s, t) ==
    [s EXCEPT !.tbl[t] = [i \in 1..Len(s.tbl[t]) |->
                            [s.tbl[t][i] EXCEPT !.id = RowNumber(s.tbl[t], i)]]]

\* nextval is not undone by rollback unless the sequence was restarted in
\* the same transaction (RESTART is transactional)
KeepNextval(d, s, restarted) ==
    [d EXCEPT !.seq = [t \in SeqTables |->
                         IF t \in restarted THEN d.seq[t] ELSE s.seq[t]]]

\* --------------------------------------------------------------- workbook
TGood1 == [skill |-> "Py", competency |-> "Dev", trainer_name |-> "Al",
           expertise_level |-> "L3"]
TGood2 == [skill |-> "Go", competency |-> "Dev", trainer_name |-> NoneV,
           expertise_level |-> "L2"]
TBad   == [skill |-> NoneV, competency |-> "Dev", trainer_name |-> "Bo",
           expertise_level |-> "L1"]

RGood == [training_name |-> "Intro", trainer_names |-> <<"Al", "Bo">>,
          email_list |-> <<"a@x">>]
RBad  == [training_name |-> NoneV, trainer_names |-> <<"Cy">>,
          email_list |-> <<>>]

CGoodB == [employee_empid |-> Cell(<<"b">>)]
CGoodA == [employee_empid |-> Cell(<<"a">>)]
CBad   == [employee_empid |-> NaNCell]

\* raises: the rows whose processing raises an exception (a header cell that
\* is not text becomes NaN in clean_headers, and k.lower() in the second loop
\* of find_column_flexible raises AttributeError for every lookup of the row
\* that gets past the first loop)
AbsentSheet == [present |-> FALSE, rows |-> <<>>, raises |-> {}]
Sheet(rows) == [present |-> TRUE, rows |-> rows, raises |-> {}]
SheetRaising(rows, at) == [present |-> TRUE, rows |-> rows, raises |-> at]

TrainerSheets    == {AbsentSheet, Sheet(<<TBad>>),
                     Sheet(<<TGood1, TBad, TGood2>>),
                     SheetRaising(<<TGood1, TBad, TGood2>>, {3})}
TrainingSheets   == {AbsentSheet, Sheet(<<RBad>>), Sheet(<<RGood, RBad>>)}
CompetencySheets == {AbsentSheet, Sheet(<<CBad>>), Sheet(<<CGoodB, CBad>>),
                     Sheet(<<CGoodA>>),
                     SheetRaising(<<CGoodB, CGoodB>>, {2})}

SheetNames == <<"Trainers Details", "Training Details", "Employee Competency">>

GoodWorkbook == [trainers |-> Sheet(<<TGood1, TBad, TGood2>>),
                 trainings |-> Sheet(<<RGood, RBad>>),
                 competency |-> Sheet(<<CGoodB, CBad>>)]

BadWorkbook == [trainers |-> Sheet(<<TBad>>), trainings |-> Sheet(<<RBad>>),
                competency |-> Sheet(<<CBad>>)]

\* the uploads considered: the good workbook, the workbooks that differ from
\* it in one sheet, and the workbook whose every row is rejected
Workbooks ==
    {wb \in [trainers : TrainerSheets, trainings : TrainingSheets,
             competency : CompetencySheets] :
        \/ wb = BadWorkbook
        \/ Cardinality({n \in {"trainers", "trainings", "competency"} :
                           wb[n] # GoodWorkbook[n]}) <= 1}

SheetOf(wb, name) ==
    IF name = SheetNames[1] THEN wb.trainers
    ELSE IF name = SheetNames[2] THEN wb.trainings ELSE wb.competency

\* pd.ExcelFile(...).sheet_names
AvailableSheets(wb) ==
    {SheetNames[i] : i \in {j \in 1..3 : SheetOf(wb, SheetNames[j]).present}}

\* ------------------------------------------------- per-run program state
NoErr == [kind |-> "none", detail |-> {}]

InitLoc ==
    [trainers_to_add |-> <<>>, skipped_count |-> 0,
     trainings_to_add |-> <<>>, skipped_training_count |-> 0,
     competencies_to_add |-> <<>>, skipped_competency_count |-> 0,
     new_users |-> <<>>, manager_employees_to_add |-> <<>>]

\* except-handler of both loaders: log, db.rollback(), re-raise
Raise(kind, detail) ==
    /\ tx' = db'
    /\ sess' = CleanSess
    /\ err' = [kind |-> kind, detail |-> detail]
    /\ pc' = "raised"

\* -------------------------------------------- load_all_from_excel: rows
\* Trainers Details, one row: <<Trainer>> to add, <<>> when skipped
TrainerOf(row) ==
    IF Truthy(row.skill) /\ Truthy(row.competency)
       /\ Truthy(row.expertise_level)
    THEN <<[skill |-> row.skill, competency |-> row.competency,
            trainer_name |-> IF Truthy(row.trainer_name)
                             THEN row.trainer_name ELSE "Not Assigned",
            expertise_level |-> row.expertise_level]>>
    ELSE <<>>

\* the pairing as it would be without the branch for a single email
TrainerEmail_noBroadcast(email_list, idx) ==
    IF idx <= Len(email_list) THEN email_list[idx] ELSE NoneV

\* email paired with the trainer at position idx of one Training Details row
TrainerEmail(email_list, idx) ==
    IF idx <= Len(email_list) THEN email_list[idx]
    ELSE IF Len(email_list) = 1 THEN email_list[1]
    ELSE NoneV

\* Training Details, one row: the TrainingDetails to add, <<>> when skipped
TrainingsOf(row) ==
    IF ~Truthy(row.training_name) THEN <<>>
    ELSE [idx \in 1..Len(row.trainer_names) |->
            [training_name |-> row.training_name,
             trainer_name |-> row.trainer_names[idx],
             email |-> TrainerEmail(row.email_list, idx)]]

\* str(int(x)) of a number given by its digits: what is left of the point
IntDigits(digits) ==
    LET points == {i \in 1..Len(digits) : digits[i] = "."} IN
    IF points = {} THEN digits ELSE SubSeq(digits, 1, SetMin(points) - 1)

\* the row as it would be if the id were taken without the test for an
\* empty value
CompetencyOf_unvalidated(row) ==
    LET c == row.employee_empid IN
    <<[employee_empid |-> IF c.num THEN IntDigits(c.s) ELSE Strip(c.s)]>>

\* Employee Competency, one row: <<EmployeeCompetency>>, <<>> when skipped.
\* A truthy id is str(int(id)) for a float and str(id).strip() otherwise; a
\* row whose id is then empty, or was None, "" or 0, is skipped
CompetencyOf(row) ==
    LET c == row.employee_empid
        falsy == \/ c.nan
                 \/ c.num /\ c.s \in {<<"0">>, <<"0", ".", "0">>}
                 \/ c.bool /\ c.s = <<"F", "a", "l", "s", "e">>
                 \/ ~c.num /\ ~c.bool /\ c.s = <<>>
        employee_empid == IF c.num THEN IntDigits(c.s) ELSE Strip(c.s)
    IN IF ~falsy /\ employee_empid # <<>>
       THEN <<[employee_empid |-> employee_empid]>>
       ELSE <<>>

RECURSIVE Collect(_)
\* the for-loop over a sheet, given the records each row yields: records to
\* add in row order, and the count of rows that yielded none
Collect(results) ==
    IF results = <<>> THEN [add |-> <<>>, skipped |-> 0]
    ELSE LET rest == Collect(Tail(results))
             r == Head(results)
         IN IF r = <<>>
            THEN [add |-> rest.add, skipped |-> rest.skipped + 1]
            ELSE [add |-> r \o rest.add, skipped |-> rest.skipped]

\* ------------------------------------------ ALTER SEQUENCE ... RESTART
\* the statements whose failure the code provides for: the index of the
\* table at which a statement of the step fails for a transient reason
\* (0: none)
Faults == 0..Len(TargetTables)

\* try the conventional name; on an exception look the name up in
\* information_schema.  PostgreSQL has aborted the transaction at the failed
\* ALTER, so the lookup raises as well and the exception leaves the handler.
AlterOutcome(faulty) ==
    IF env.seqName = "conventional" /\ ~faulty THEN "restarted" ELSE "raised"

\* Step 1.5 as it would be without any ALTER SEQUENCE
ResetFrom_noRestart(s, i, k, restarted) ==
    [status |-> "ok", store |-> s, restarted |-> restarted]

RECURSIVE ResetFrom(_, _, _, _)
\* Step 1.5 from table i on; k is the table whose ALTER hits a fault
ResetFrom(s, i, k, restarted) ==
    IF i > Len(TargetTables)
    THEN [status |-> "ok", store |-> s, restarted |-> restarted]
    ELSE LET t == TargetTables[i] IN
         IF AlterOutcome(i = k) = "raised"
         THEN [status |-> "raised", store |-> s, restarted |-> restarted]
         ELSE ResetFrom([s EXCEPT !.seq[t] = 1], i + 1, k, restarted \cup {t})

\* the UPDATE that renumbers t violates a foreign key when a row of another
\* table references an id that no row of t has afterwards
RenumberBlocked(s, t) ==
    \E c \in DepTables :
        /\ <<c, t>> \in References
        /\ \E i \in 1..Len(s.tbl[c]) :
              s.tbl[c][i].training_id \notin Ids(Renumber(s, t), t)

RECURSIVE FixFrom(_, _, _, _)
\* Step 6 from table i on; k is the table whose SELECT MIN(id) hits a fault;
\* `done` collects the tables that were renumbered
FixFrom(s, i, k, done) ==
    IF i > Len(TargetTables)
    THEN [status |-> "ok", store |-> s, done |-> done]
    ELSE LET t == TargetTables[i] IN
         IF s.tbl[t] = <<>> THEN FixFrom(s, i + 1, k, done)
         ELSE IF i = k
         THEN [status |-> "raised", store |-> s, done |-> done]
         ELSE IF SetMin(Ids(s, t)) = 1 THEN FixFrom(s, i + 1, k, done)
         ELSE IF t = "training_details" /\ s.tbl["training_requests"] # <<>>
         THEN FixFrom(s, i + 1, k, done)
         ELSE IF RenumberBlocked(s, t) \/ AlterOutcome(FALSE) = "raised"
         THEN [status |-> "raised", store |-> s, done |-> done]
         ELSE FixFrom([Renumber(s, t) EXCEPT !.seq[t] = 1], i + 1, k,
                      done \cup {t})

\* ------------------------------------------- load_all_from_excel: steps
\* POST /upload-and-refresh opens a session and calls load_all_from_excel
upload_and_refresh_data ==
    /\ pc = "idle"
    /\ runs < MaxRuns
    /\ \E wb \in Workbooks : run' = [kind |-> "excel", wb |-> wb]
    /\ runs' = runs + 1
    /\ pre' = db
    /\ tx' = db
    /\ sess' = CleanSess
    /\ loc' = InitLoc
    /\ err' = NoErr
    /\ log' = {}
    /\ pc' = "xl_clear"
    /\ UNCHANGED <<db, env, lastOk, routeOps>>

\* Step 1: the thirteen DELETEs
LoadExcel_ClearOldData ==
    /\ pc = "xl_clear"
    /\ LET r == DeleteAll(tx, DeleteOrder) IN
       IF r.status = "ok"
       THEN /\ tx' = r.store
            /\ pc' = "xl_seq"
            /\ log' = log \cup {"DELETE"}
            /\ UNCHANGED <<db, sess, err>>
       ELSE /\ db' = db
            /\ Raise("constraint_violation", {})
            /\ log' = log \cup {"DELETE"}
    /\ UNCHANGED <<env, lastOk, run, pre, loc, runs, routeOps>>

\* Step 1.5: restart the three sequences, then db.commit(); an exception
\* skips the remaining restarts and the commit, and is only logged
LoadExcel_ResetSequences ==
    /\ pc = "xl_seq"
    /\ \E k \in Faults :
         LET r == ResetFrom(tx, 1, k, sess.restarted)
             stmts == IF r.restarted # {} THEN {"RESTART"} ELSE {}
         IN IF r.status = "ok"
            THEN /\ db' = r.store
                 /\ tx' = r.store
                 /\ sess' = CleanSess
                 /\ log' = log \cup stmts \cup {"COMMIT_SEQ"}
            ELSE /\ tx' = r.store
                 /\ sess' = [restarted |-> r.restarted, aborted |-> TRUE]
                 /\ log' = log \cup stmts
                 /\ db' = db
    /\ pc' = "xl_trainers"
    /\ UNCHANGED <<env, lastOk, run, pre, loc, err, runs, routeOps>>

\* Step 2: read and validate "Trainers Details"
LoadExcel_ReadTrainers ==
    /\ pc = "xl_trainers"
    /\ IF ~run.wb.trainers.present
       THEN /\ db' = db
            /\ Raise("sheet_not_found",
                     {<<SheetNames[1], AvailableSheets(run.wb)>>})
            /\ loc' = loc
       ELSE IF run.wb.trainers.raises # {}
       THEN \* the loop has no handler of its own: the exception reaches the
            \* handler of the function
            /\ db' = db
            /\ Raise("row_error", {})
            /\ loc' = loc
       ELSE LET rows == run.wb.trainers.rows
                c == Collect([i \in 1..Len(rows) |-> TrainerOf(rows[i])])
            IN /\ loc' = [loc EXCEPT !.trainers_to_add = c.add,
                                     !.skipped_count = c.skipped]
               /\ pc' = "xl_trainings"
               /\ UNCHANGED <<db, tx, sess, err>>
    /\ UNCHANGED <<env, lastOk, run, pre, log, runs, routeOps>>

\* the step as it would be if a missing "Training Details" sheet were only
\* logged
LoadExcel_ReadTrainings_continues ==
    /\ pc = "xl_trainings"
    /\ LET rows == run.wb.trainings.rows
           c == Collect([i \in 1..Len(rows) |-> TrainingsOf(rows[i])])
       IN loc' = [loc EXCEPT !.trainings_to_add = c.add,
                             !.skipped_training_count = c.skipped]
    /\ pc' = "xl_competency"
    /\ UNCHANGED <<db, tx, sess, env, lastOk, run, pre, err, log, runs,
                 routeOps>>

\* Step 3: read and validate "Training Details", one record per trainer
LoadExcel_ReadTrainings ==
    /\ pc = "xl_trainings"
    /\ IF ~run.wb.trainings.present
       THEN /\ db' = db
            /\ Raise("sheet_not_found",
                     {<<SheetNames[2], AvailableSheets(run.wb)>>})
            /\ loc' = loc
       ELSE LET rows == run.wb.trainings.rows
                c == Collect([i \in 1..Len(rows) |-> TrainingsOf(rows[i])])
            IN /\ loc' = [loc EXCEPT !.trainings_to_add = c.add,
                                     !.skipped_training_count = c.skipped]
               /\ pc' = "xl_competency"
               /\ UNCHANGED <<db, tx, sess, err>>
    /\ UNCHANGED <<env, lastOk, run, pre, log, runs, routeOps>>

\* Step 3.5: read and validate "Employee Competency"; a missing sheet is
\* logged and the load continues without competency data; a row that raises
\* is counted and skipped by the except-clause of the loop body
LoadExcel_ReadCompetency ==
    /\ pc = "xl_competency"
    /\ IF ~run.wb.competency.present
       THEN loc' = loc
       ELSE LET rows == run.wb.competency.rows
                c == Collect([i \in 1..Len(rows) |->
                                IF i \in run.wb.competency.raises THEN <<>>
                                ELSE CompetencyOf(rows[i])])
            IN loc' = [loc EXCEPT !.competencies_to_add = c.add,
                                  !.skipped_competency_count = c.skipped]
    /\ pc' = "xl_add"
    /\ UNCHANGED <<db, tx, sess, env, lastOk, run, pre, err, log, runs,
                 routeOps>>

\* the condition with its last `not` lost
NoValidData_missingNot(l) ==
    /\ l.trainers_to_add = <<>>
    /\ l.trainings_to_add = <<>>
    /\ l.competencies_to_add # <<>>

\* nothing accepted from any sheet
NoValidData(l) ==
    /\ l.trainers_to_add = <<>>
    /\ l.trainings_to_add = <<>>
    /\ l.competencies_to_add = <<>>

\* Step 4: db.add_all of the three lists; nothing to insert is an error
LoadExcel_AddAll ==
    /\ pc = "xl_add"
    /\ IF NoValidData(loc)
       THEN /\ db' = db
            /\ Raise("no_valid_data", {})
       ELSE /\ pc' = "xl_commit"
            /\ UNCHANGED <<db, tx, sess, err>>
    /\ UNCHANGED <<env, lastOk, run, pre, loc, log, runs, routeOps>>

\* the store after the flush of the three lists
Flushed(s, l) ==
    InsertRows(InsertRows(InsertRows(s, "trainers", l.trainers_to_add),
                          "training_details", l.trainings_to_add),
               "employee_competency", l.competencies_to_add)

\* employee_competency.employee_empid references users.username
CompetencyFkOk(s, l) ==
    s.fk =>
        \A i \in 1..Len(l.competencies_to_add) :
            l.competencies_to_add[i].employee_empid \in Usernames(s)

\* the ids that the sequences hand out are not taken (primary keys)
PrimaryKeysOk(s, l) ==
    \A t \in SeqTables :
        LET n == Len(Flushed(s, l).tbl[t]) - Len(s.tbl[t]) IN
        \A id \in Ids(s, t) : id < s.seq[t] \/ id >= s.seq[t] + n

\* Step 5: db.commit() flushes the INSERTs and commits
LoadExcel_Commit ==
    /\ pc = "xl_commit"
    /\ IF sess.aborted
       THEN /\ db' = db
            /\ Raise("commit_failed", {})
            /\ log' = log
       ELSE IF ~CompetencyFkOk(tx, loc) \/ ~PrimaryKeysOk(tx, loc)
       THEN /\ \E consumed \in BOOLEAN :
                 db' = IF consumed
                       THEN KeepNextval(db, Flushed(tx, loc), sess.restarted)
                       ELSE db
            /\ Raise("constraint_violation", {})
            /\ log' = log \cup {"INSERT"}
       ELSE /\ db' = Flushed(tx, loc)
            /\ tx' = db'
            /\ sess' = CleanSess
            /\ pc' = "xl_fixids"
            /\ log' = log \cup {"INSERT", "COMMIT_DATA"}
            /\ err' = err
    /\ UNCHANGED <<env, lastOk, run, pre, loc, runs, routeOps>>

\* the handler of Step 6 as it would be if it rolled back to the state before
\* the run
FixIdsFailed_undoesLoad(r, stmts) ==
    /\ tx' = pre
    /\ sess' = CleanSess
    /\ db' = pre
    /\ log' = log \cup stmts

\* except Exception as id_fix_error: two warnings are logged, nothing else;
\* the statements of the step stay uncommitted in the failed transaction
FixIdsFailed(r, stmts) ==
    /\ tx' = r.store
    /\ sess' = [restarted |-> r.done, aborted |-> TRUE]
    /\ db' = db
    /\ log' = log \cup stmts

\* Step 6: renumber ids to start from 1, own commit; any exception is only
\* logged and the function returns normally
LoadExcel_FixIds ==
    /\ pc = "xl_fixids"
    /\ \E k \in Faults :
         LET r == FixFrom(tx, 1, k, {})
             stmts == {"UPDATE " \o t : t \in r.done}
                      \cup (IF r.done # {} THEN {"RESTART"} ELSE {})
         IN
         IF r.status = "ok"
         THEN /\ db' = r.store
              /\ tx' = r.store
              /\ sess' = CleanSess
              /\ log' = log \cup stmts \cup {"COMMIT_IDS"}
         ELSE FixIdsFailed(r, stmts)
    /\ pc' = "returned"
    /\ UNCHANGED <<env, lastOk, run, pre, loc, err, runs, routeOps>>

\* the endpoint leaves `async with AsyncSessionLocal()`: the session is
\* closed and what it had not committed is discarded; the locals of the run
\* are gone.  `lastOk` remembers the workbook of a reload that has just
\* succeeded (history, not read by any action).
SessionClose ==
    /\ pc \in {"returned", "raised"}
    /\ tx' = db
    /\ sess' = CleanSess
    /\ pc' = "idle"
    /\ run' = [kind |-> "none"]
    /\ pre' = db
    /\ loc' = InitLoc
    /\ err' = NoErr
    /\ log' = {}
    /\ lastOk' = IF run.kind = "excel" /\ pc = "returned" THEN {run.wb} ELSE {}
    /\ UNCHANGED <<db, env, runs, routeOps>>

\* ------------------------------------------------------------------- csv
RequiredColumns == <<"manager_empid", "manager_name", "employee_empid",
                     "employee_name">>

AllColumns == {RequiredColumns[i] : i \in 1..Len(RequiredColumns)}
              \cup {"manager_is_trainer", "employee_is_trainer"}

Rel(m, e) == [manager_empid |-> m, employee_empid |-> e,
              manager_is_trainer |-> NaNCell, employee_is_trainer |-> NaNCell]

\* a row whose manager is flagged as a trainer
TrainerRel(m, e) == [Rel(m, e) EXCEPT !.manager_is_trainer = Cell(<<"T">>)]

CsvRowSets == {<<TrainerRel(Cell(<<"a">>), Cell(<<"b">>))>>,
               <<Rel(Cell(<<"b">>), Cell(<<"b">>)), Rel(NaNCell, NaNCell)>>,
               <<Rel(Cell(<<"a">>), NaNCell)>>,
               <<Rel(Cell(<<"a", " ">>), Cell(<<"b">>))>>,
               <<Rel(Cell(<<"a">>), Cell(<<"b">>)),
                 Rel(Cell(<<"a">>), Cell(<<"b">>))>>,
               <<Rel(NaNCell, Cell(<<" ">>))>>}

CsvColumnSets == {AllColumns, AllColumns \ {"manager_name"}}

\* the rows are not read when a required column is missing
Csvs == {csv \in [columns : CsvColumnSets, rows : CsvRowSets] :
            csv.columns # AllColumns =>
                csv.rows = <<TrainerRel(Cell(<<"a">>), Cell(<<"b">>))>>}

\* the validation as it would be if only the two id columns were required
MissingColumns_idsOnly(columns) ==
    SelectSeq(<<"manager_empid", "employee_empid">>,
              LAMBDA c : c \notin columns)

\* [col for col in required_columns if col not in df.columns]
MissingColumns(columns) ==
    SelectSeq(RequiredColumns, LAMBDA c : c \notin columns)

\* set(df[col].dropna().astype(str).unique())
ColumnIds(rows, col) ==
    {rows[i][col].s : i \in {j \in 1..Len(rows) : ~rows[j][col].nan}}

AllUserIds(rows) ==
    ColumnIds(rows, "manager_empid") \cup ColumnIds(rows, "employee_empid")

\* the lookup as it would be if it found no existing user
ExistingUsernames_none(s, all_user_ids) == {}

\* select(User.username).where(User.username.in_(all_user_ids))
ExistingUsernames(s, all_user_ids) == Usernames(s) \cap all_user_ids

MissingUserIds(s, rows) ==
    AllUserIds(rows) \ ExistingUsernames(s, AllUserIds(rows))

RECURSIVE SetToSeq(_)
SetToSeq(S) ==
    IF S = {} THEN <<>>
    ELSE LET x == CHOOSE y \in S : TRUE IN <<x>> \o SetToSeq(S \ {x})

\* the User objects built for the missing ids; the hash is salted, so it
\* differs from one call of get_password_hash to the next
NewUsers(ids, salt) ==
    LET q == SetToSeq(ids) IN
    [i \in 1..Len(q) |-> [username |-> q[i],
                          hashed_password |-> <<"password123", salt>>]]

\* users.username is unique
UsersInsertable(s, users) ==
    \A i \in 1..Len(users) : users[i].username \notin Usernames(s)

\* str(cell).strip() if pd.notna(cell) else None
StripCell(c) == IF c.nan THEN NaNCell ELSE Cell(Strip(c.s))

\* str.lower()
Lower(s) ==
    LET upper == <<"A", "B", "C", "D", "E", "F", "G", "H", "I", "J", "K", "L", "M",
                   "N", "O", "P", "Q", "R", "S", "T", "U", "V", "W", "X", "Y", "Z">>
        lower == <<"a", "b", "c", "d", "e", "f", "g", "h", "i", "j", "k", "l", "m",
                   "n", "o", "p", "q", "r", "s", "t", "u", "v", "w", "x", "y", "z">>
    IN [i \in 1..Len(s) |->
          IF \E j \in 1..Len(upper) : upper[j] = s[i]
          THEN lower[CHOOSE j \in 1..Len(upper) : upper[j] = s[i]]
          ELSE s[i]]

\* to_bool as it would be without .lower()
to_bool_caseSensitive(val) ==
    IF val.nan THEN FALSE
    ELSE IF val.bool THEN val.s = <<"T", "r", "u", "e">>
    ELSE Strip(val.s) \in {<<"t">>, <<"t", "r", "u", "e">>, <<"1">>,
                           <<"y", "e", "s">>, <<"y">>}

\* to_bool: NaN and None are False, a bool is itself, else
\* str(val).lower().strip() is one of the words
to_bool(val) ==
    IF val.nan THEN FALSE
    ELSE IF val.bool THEN val.s = <<"T", "r", "u", "e">>
    ELSE Strip(Lower(val.s)) \in {<<"t">>, <<"t", "r", "u", "e">>, <<"1">>,
                                  <<"y", "e", "s">>, <<"y">>}

\* one CSV row: <<ManagerEmployee>> to add, <<>> when skipped
ManagerEmployeeOf(row) ==
    LET m == StripCell(row.manager_empid)
        e == StripCell(row.employee_empid)
    IN IF m.nan \/ m.s = <<>> \/ e.nan \/ e.s = <<>> THEN <<>>
       ELSE <<[manager_empid |-> m.s, employee_empid |-> e.s,
               manager_is_trainer |-> to_bool(row.manager_is_trainer),
               employee_is_trainer |-> to_bool(row.employee_is_trainer)]>>

\* composite primary key and the two foreign keys of manager_employee
RelationsInsertable(s, recs) ==
    /\ \A i, j \in 1..Len(recs) :
          i # j => \/ recs[i].manager_empid # recs[j].manager_empid
                   \/ recs[i].employee_empid # recs[j].employee_empid
    /\ \A i \in 1..Len(recs) :
          /\ recs[i].manager_empid \in Usernames(s)
          /\ recs[i].employee_empid \in Usernames(s)

\* ---------------------------------- load_manager_employee_from_csv: steps
\* POST /upload-manager-employee-csv opens a session and calls the loader
upload_manager_employee_csv ==
    /\ pc = "idle"
    /\ runs < MaxRuns
    /\ \E csv \in Csvs : run' = [kind |-> "csv", csv |-> csv]
    /\ runs' = runs + 1
    /\ pre' = db
    /\ tx' = db
    /\ sess' = CleanSess
    /\ loc' = InitLoc
    /\ err' = NoErr
    /\ log' = {}
    /\ pc' = "csv_clear"
    /\ UNCHANGED <<db, env, lastOk, routeOps>>

\* Step 1: DELETE FROM manager_employee
LoadCsv_ClearOldData ==
    /\ pc = "csv_clear"
    /\ tx' = [tx EXCEPT !.tbl["manager_employee"] = <<>>]
    /\ log' = log \cup {"DELETE"}
    /\ pc' = "csv_columns"
    /\ UNCHANGED <<db, sess, env, lastOk, run, pre, loc, err, runs, routeOps>>

\* Step 2: read the file and validate the required columns
LoadCsv_ValidateColumns ==
    /\ pc = "csv_columns"
    /\ LET missing_columns == MissingColumns(run.csv.columns) IN
       IF missing_columns # <<>>
       THEN /\ db' = db
            /\ Raise("missing_columns", {missing_columns})
       ELSE /\ pc' = "csv_users"
            /\ UNCHANGED <<db, tx, sess, err>>
    /\ UNCHANGED <<env, lastOk, run, pre, loc, log, runs, routeOps>>

\* Steps 3-4: create and commit the users that do not exist yet
LoadCsv_CreateMissingUsers ==
    /\ pc = "csv_users"
    /\ LET missing_user_ids == MissingUserIds(tx, run.csv.rows)
           new_users == NewUsers(missing_user_ids, runs)
       IN IF missing_user_ids = {}
          THEN /\ pc' = "csv_rows"
               /\ UNCHANGED <<db, tx, sess, loc, err, log>>
          ELSE \/ /\ UsersInsertable(tx, new_users)
                  /\ db' = [tx EXCEPT !.tbl["users"] = @ \o new_users]
                  /\ tx' = db'
                  /\ sess' = CleanSess
                  /\ loc' = [loc EXCEPT !.new_users = new_users]
                  /\ log' = log \cup {"INSERT", "COMMIT_USERS"}
                  /\ pc' = "csv_rows"
                  /\ err' = err
               \/ /\ db' = db
                  /\ Raise("user_creation_failed", {})
                  /\ loc' = [loc EXCEPT !.new_users = new_users]
                  /\ log' = log \cup {"INSERT"}
    /\ UNCHANGED <<env, lastOk, run, pre, runs, routeOps>>

\* the for-loop over the CSV rows
LoadCsv_ProcessRows ==
    /\ pc = "csv_rows"
    /\ LET rows == run.csv.rows
           c == Collect([i \in 1..Len(rows) |-> ManagerEmployeeOf(rows[i])])
       IN loc' = [loc EXCEPT !.manager_employees_to_add = c.add,
                             !.skipped_count = c.skipped]
    /\ pc' = "csv_add"
    /\ UNCHANGED <<db, tx, sess, env, lastOk, run, pre, err, log, runs,
                 routeOps>>

\* Step 5: db.add_all of the accepted rows; nothing accepted is an error
LoadCsv_AddAll ==
    /\ pc = "csv_add"
    /\ IF loc.manager_employees_to_add = <<>>
       THEN /\ db' = db
            /\ Raise("no_valid_data", {})
       ELSE /\ pc' = "csv_commit"
            /\ UNCHANGED <<db, tx, sess, err>>
    /\ UNCHANGED <<env, lastOk, run, pre, loc, log, runs, routeOps>>

\* Step 6: db.commit() flushes the INSERTs and commits
LoadCsv_Commit ==
    /\ pc = "csv_commit"
    /\ IF RelationsInsertable(tx, loc.manager_employees_to_add)
       THEN /\ db' = [tx EXCEPT !.tbl["manager_employee"] =
                                   @ \o loc.manager_employees_to_add]
            /\ tx' = db'
            /\ sess' = CleanSess
            /\ pc' = "returned"
            /\ log' = log \cup {"INSERT", "COMMIT_DATA"}
            /\ err' = err
       ELSE /\ db' = db
            /\ Raise("constraint_violation", {})
            /\ log' = log \cup {"INSERT"}
    /\ UNCHANGED <<env, lastOk, run, pre, loc, runs, routeOps>>

\* ------------------------------------------------------------ other routes
\* the server handles other requests between the runs and, during a reload,
\* between the DELETEs and Step 1.5, while the loader reads the workbook
\* (after the commit of Step 1.5; the reading itself touches no table, so
\* one point stands for all of it) and between the data commit and Step 6;
\* what they commit is seen by the loader's session as well
RouteWindow == pc \in {"idle", "xl_seq", "xl_commit", "xl_fixids"}

\* POST /admin/trainings builds the TrainingDetail from TrainingCreate, which
\* has no trainer_name: the INSERT draws an id from the sequence and fails on
\* the NOT NULL column, and the drawn id is not given back
create_training ==
    /\ RouteWindow
    /\ routeOps < MaxRouteOps
    /\ "training_details" \notin sess.restarted
    /\ routeOps' = routeOps + 1
    /\ db' = [db EXCEPT !.seq["training_details"] = @ + 1]
    /\ tx' = [tx EXCEPT !.seq["training_details"] = @ + 1]
    /\ UNCHANGED <<sess, env, lastOk, pc, run, pre, loc, err, log, runs>>

RECURSIVE Text(_)
\* a username as the text stored in a text column
Text(u) == IF u = <<>> THEN "" ELSE Head(u) \o Text(Tail(u))

\* is_trainer of POST /trainings: the first manager_employee row that the
\* SELECT returns for the user decides, by the flag of the side on which it
\* names them; the SELECT has no ORDER BY, so any matching row can be first
IsTrainer(s, u) ==
    LET rows == s.tbl["manager_employee"]
        hits == {i \in 1..Len(rows) : rows[i].manager_empid = u
                                        \/ rows[i].employee_empid = u}
    IN \E i \in hits :
         LET relation == rows[i] IN
           \/ relation.manager_empid = u /\ relation.manager_is_trainer
           \/ relation.employee_empid = u /\ relation.employee_is_trainer

\* POST /trainings by a designated trainer: one TrainingDetail, id from the
\* sequence; an id that is already taken is a primary-key violation, and the
\* drawn id is not given back
create_new_training ==
    /\ RouteWindow
    /\ routeOps < MaxRouteOps
    /\ "training_details" \notin sess.restarted
    /\ routeOps' = routeOps + 1
    /\ \E u \in Usernames(db) :
         /\ IsTrainer(db, u)
         /\ LET id == db.seq["training_details"]
                row == [id |-> id,
                        rec |-> [training_name |-> "New",
                                 trainer_name |-> Text(u), email |-> Text(u)]]
                free == id \notin Ids(db, "training_details")
                                    \cup Ids(tx, "training_details")
                ins(s) == [s EXCEPT !.seq["training_details"] = @ + 1,
                                    !.tbl["training_details"] =
                                        IF free THEN @ \o <<row>> ELSE @]
            IN db' = ins(db) /\ tx' = ins(tx)
    /\ UNCHANGED <<sess, env, lastOk, pc, run, pre, loc, err, log, runs>>

\* tables that the request, assignment and shared-content routes insert into
RouteTables == {"training_requests", "training_assignments",
                "shared_assignments", "assignment_submissions"}

\* the routes that create rows referencing a training (create a request,
\* assign a training, share an assignment, submit an assignment): the row
\* must satisfy the foreign keys of its table
InsertDependent ==
    /\ RouteWindow
    /\ routeOps < MaxRouteOps
    /\ routeOps' = routeOps + 1
    /\ \E t \in RouteTables,
          id \in Ids(db, "training_details") \cap Ids(tx, "training_details") :
         /\ \A p \in Tables \ {"training_details", "users"} :
               <<t, p>> \in References =>
                   db.tbl[p] # <<>> /\ tx.tbl[p] # <<>>
         /\ db' = [db EXCEPT !.tbl[t] = @ \o <<[training_id |-> id]>>]
         /\ tx' = [tx EXCEPT !.tbl[t] = @ \o <<[training_id |-> id]>>]
    /\ UNCHANGED <<sess, env, lastOk, pc, run, pre, loc, err, log, runs>>

\* --------------------------------------------------------- specification
\* the database is PostgreSQL (database.py); the id sequences carry the
\* names create_all gave them, or were renamed since
Envs == {[seqName |-> "conventional"], [seqName |-> "renamed"]}

Init ==
    /\ db = InitStore
    /\ tx = InitStore
    /\ sess = CleanSess
    /\ env \in Envs
    /\ pc = "idle"
    /\ run = [kind |-> "none"]
    /\ pre = InitStore
    /\ loc = InitLoc
    /\ err = NoErr
    /\ log = {}
    /\ runs = 0
    /\ routeOps = 0
    /\ lastOk = {}

Next ==
    \/ upload_and_refresh_data
    \/ LoadExcel_ClearOldData
    \/ LoadExcel_ResetSequences
    \/ LoadExcel_ReadTrainers
    \/ LoadExcel_ReadTrainings
    \/ LoadExcel_ReadCompetency
    \/ LoadExcel_AddAll
    \/ LoadExcel_Commit
    \/ LoadExcel_FixIds
    \/ SessionClose
    \/ upload_manager_employee_csv
    \/ LoadCsv_ClearOldData
    \/ LoadCsv_ValidateColumns
    \/ LoadCsv_CreateMissingUsers
    \/ LoadCsv_ProcessRows
    \/ LoadCsv_AddAll
    \/ LoadCsv_Commit
    \/ create_training
    \/ create_new_training
    \/ InsertDependent

Spec == Init /\ [][Next]_vars

\* ------------------------------- load_employee_competency_from_excel
\* The function is called by no route; it is run on its own with a session
\* of the same database.  Its steps are the actions of CompetencySpec.

\* one row of the sheet: <<EmployeeCompetency>>, <<>> when the row is skipped
\* for a missing employee_empid (the statements of load_all_from_excel,
\* repeated)
EmployeeCompetencyOf(row) == CompetencyOf(row)

\* the store a reload of the three sheets leaves when only the row of
\* employee "b" was accepted
LoadedStore == InsertRows(InitStore, "employee_competency",
                          <<[employee_empid |-> <<"b">>]>>)

load_employee_competency_from_excel ==
    /\ pc = "idle"
    /\ runs < MaxRuns
    /\ \E sh \in CompetencySheets : run' = [kind |-> "competency", sheet |-> sh]
    /\ runs' = runs + 1
    /\ pre' = db
    /\ tx' = db
    /\ sess' = CleanSess
    /\ loc' = InitLoc
    /\ err' = NoErr
    /\ log' = {}
    /\ pc' = "ec_clear"
    /\ UNCHANGED <<db, env, lastOk, routeOps>>

\* Step 1: DELETE FROM employee_competency (no table references it), then
\* ALTER SEQUENCE employee_competency_id_seq RESTART WITH 1
LoadCompetency_ClearOldData ==
    /\ pc = "ec_clear"
    /\ IF AlterOutcome(FALSE) = "restarted"
       THEN /\ tx' = [tx EXCEPT !.tbl["employee_competency"] = <<>>,
                                !.seq["employee_competency"] = 1]
            /\ sess' = [sess EXCEPT !.restarted = {"employee_competency"}]
            /\ pc' = "ec_read"
            /\ log' = log \cup {"DELETE", "RESTART"}
            /\ UNCHANGED <<db, err>>
       ELSE /\ db' = db
            /\ Raise("sequence_not_found", {})
            /\ log' = log \cup {"DELETE", "ORIGINAL_STATE"}
    /\ UNCHANGED <<env, lastOk, run, pre, loc, runs, routeOps>>

\* Step 2: read the sheet; a missing sheet is a ValueError
LoadCompetency_ReadSheet ==
    /\ pc = "ec_read"
    /\ IF ~run.sheet.present
       THEN /\ db' = db
            /\ Raise("sheet_not_found", {SheetNames[3]})
            /\ log' = log \cup {"ORIGINAL_STATE"}
       ELSE /\ pc' = "ec_fk"
            /\ UNCHANGED <<db, tx, sess, err, log>>
    /\ UNCHANGED <<env, lastOk, run, pre, loc, runs, routeOps>>

\* Step 3: when the constraint is found, ALTER TABLE ... DROP CONSTRAINT and
\* db.commit(): the commit makes the DELETE and the RESTART of Step 1
\* permanent together with the dropped constraint
DisableFk(s) ==
    /\ tx' = [s EXCEPT !.fk = FALSE]
    /\ db' = tx'
    /\ sess' = CleanSess

LoadCompetency_DisableFk ==
    /\ pc = "ec_fk"
    /\ IF tx.fk
       THEN /\ DisableFk(tx)
            /\ log' = log \cup {"DROP_CONSTRAINT", "COMMIT_DROP"}
       ELSE UNCHANGED <<db, tx, sess, log>>
    /\ pc' = "ec_rows"
    /\ UNCHANGED <<env, lastOk, run, pre, loc, err, runs, routeOps>>

\* Step 4: the row loop; a row that raises is counted as skipped
LoadCompetency_ProcessRows ==
    /\ pc = "ec_rows"
    /\ LET rows == run.sheet.rows
           c == Collect([i \in 1..Len(rows) |->
                           IF i \in run.sheet.raises THEN <<>>
                           ELSE EmployeeCompetencyOf(rows[i])])
       IN loc' = [loc EXCEPT !.competencies_to_add = c.add,
                             !.skipped_competency_count = c.skipped]
    /\ pc' = "ec_add"
    /\ UNCHANGED <<db, tx, sess, env, lastOk, run, pre, err, log, runs,
                 routeOps>>

\* Step 5: db.add_all; nothing to insert is a ValueError
LoadCompetency_AddAll ==
    /\ pc = "ec_add"
    /\ IF loc.competencies_to_add = <<>>
       THEN /\ db' = db
            /\ Raise("no_valid_data", {})
            /\ log' = log \cup {"ORIGINAL_STATE"}
       ELSE /\ pc' = "ec_commit"
            /\ UNCHANGED <<db, tx, sess, err, log>>
    /\ UNCHANGED <<env, lastOk, run, pre, loc, runs, routeOps>>

\* Step 6: db.commit() flushes the INSERTs and commits; a failure (a foreign
\* key still in place, or the commit itself) goes through both handlers
LoadCompetency_Commit ==
    /\ pc = "ec_commit"
    /\ \E faulty \in BOOLEAN :
         IF faulty \/ ~CompetencyFkOk(tx, loc)
         THEN /\ db' = db
              /\ Raise("commit_failed", {})
              /\ log' = log \cup {"INSERT", "ORIGINAL_STATE"}
         ELSE /\ db' = InsertRows(tx, "employee_competency",
                                  loc.competencies_to_add)
              /\ tx' = db'
              /\ sess' = CleanSess
              /\ pc' = "ec_fixids"
              /\ log' = log \cup {"INSERT", "COMMIT_DATA"}
              /\ err' = err
    /\ UNCHANGED <<env, lastOk, run, pre, loc, runs, routeOps>>

\* Step 7, in the try of Step 6: RESTART, renumber the ids from 1, RESTART,
\* db.commit(); Step 8 leaves the constraint dropped.  A failure is re-raised
\* to the outer handler after the data has been committed.
LoadCompetency_FixIds ==
    /\ pc = "ec_fixids"
    /\ \E faulty \in BOOLEAN :
         IF AlterOutcome(faulty) = "restarted"
         THEN /\ db' = [Renumber(tx, "employee_competency")
                          EXCEPT !.seq["employee_competency"] = 1]
              /\ tx' = db'
              /\ sess' = CleanSess
              /\ pc' = "returned"
              /\ log' = log \cup {"RESTART", "UPDATE", "COMMIT_IDS"}
              /\ err' = err
         ELSE /\ db' = db
              /\ Raise("id_reset_failed", {})
              /\ log' = log \cup {"ORIGINAL_STATE"}
    /\ UNCHANGED <<env, lastOk, run, pre, loc, runs, routeOps>>

CompetencyInit ==
    /\ db \in {InitStore, LoadedStore}
    /\ tx = db
    /\ sess = CleanSess
    /\ env \in Envs
    /\ pc = "idle"
    /\ run = [kind |-> "none"]
    /\ pre = db
    /\ loc = InitLoc
    /\ err = NoErr
    /\ log = {}
    /\ runs = 0
    /\ routeOps = 0
    /\ lastOk = {}

CompetencyNext ==
    \/ load_employee_competency_from_excel
    \/ LoadCompetency_ClearOldData
    \/ LoadCompetency_ReadSheet
    \/ LoadCompetency_DisableFk
    \/ LoadCompetency_ProcessRows
    \/ LoadCompetency_AddAll
    \/ LoadCompetency_Commit
    \/ LoadCompetency_FixIds
    \/ SessionClose

CompetencySpec == CompetencyInit /\ [][CompetencyNext]_vars

\* ------------------------------------------------------- text operations
\* str.replace(old, new) for a single character old; new is a string
RECURSIVE Replace(_, _, _)
Replace(s, old, new) ==
    IF s = <<>> THEN <<>>
    ELSE (IF Head(s) = old THEN new ELSE <<Head(s)>>)
         \o Replace(Tail(s), old, new)

\* `needle in hay`
Contains(hay, needle) ==
    \E off \in 0..(Len(hay) - Len(needle)) :
        SubSeq(hay, off + 1, off + Len(needle)) = needle

\* str.split(sep) for a single character sep: the pieces between the
\* separators, empty pieces included
RECURSIVE Split(_, _)
Split(s, sep) ==
    IF \A i \in 1..Len(s) : s[i] # sep THEN <<s>>
    ELSE LET p == CHOOSE i \in 1..Len(s) :
                    s[i] = sep /\ \A j \in 1..(i - 1) : s[j] # sep
         IN <<SubSeq(s, 1, p - 1)>> \o Split(SubSeq(s, p + 1, Len(s)), sep)

\* str.split(): the maximal runs of non-whitespace characters
RECURSIVE SplitWhitespace(_)
SplitWhitespace(s) ==
    LET t == Strip(s) IN
    IF t = <<>> THEN <<>>
    ELSE IF \A i \in 1..Len(t) : t[i] \notin Whitespace THEN <<t>>
    ELSE LET p == CHOOSE i \in 1..Len(t) :
                    t[i] \in Whitespace
                    /\ \A j \in 1..(i - 1) : t[j] \notin Whitespace
         IN <<SubSeq(t, 1, p - 1)>>
            \o SplitWhitespace(SubSeq(t, p + 1, Len(t)))

\* ----------------------------------------------------------- clean_headers
\* one column name through .str.strip().str.lower().str.replace(" ", "_")
\* .str.replace("/", "_").str.replace(",", "_").str.replace("*", "")
clean_headers(h) ==
    LET a == Strip(h)
        b == Lower(a)
        c == Replace(b, " ", <<"_">>)
        d == Replace(c, "/", <<"_">>)
        e == Replace(d, ",", <<"_">>)
    IN Replace(e, "*", <<>>)

\* ---------------------------------------------------- find_column_flexible
\* a row of DataFrame.to_dict('records'): the columns in sheet order, each a
\* key (the cleaned header) with the cell of this row; blank cells are None
\* (NaNCell) after df.replace({np.nan: None})
Keys(row_dict) == {row_dict[i].key : i \in 1..Len(row_dict)}

\* row_dict.get(name)
Get(row_dict, name) ==
    IF name \in Keys(row_dict)
    THEN row_dict[CHOOSE i \in 1..Len(row_dict) : row_dict[i].key = name].val
    ELSE NaNCell

\* row_keys_lower[l] of {k.lower(): k for k in row_dict.keys()}: of the keys
\* with the same lowercase form the last one stays
RowKeysLower(row_dict, l) ==
    row_dict[SetMax({i \in 1..Len(row_dict) :
                        Lower(row_dict[i].key) = l})].key

\* the guard as it would be without the length test
ShortAliasGuard_off(name, key) == TRUE

\* len(name) > 3 or (len(name) <= 3 and name_lower == key_lower)
ShortAliasGuard(name, key) ==
    Len(name) > 3 \/ (Len(name) <= 3 /\ Lower(name) = Lower(key))

\* the test of the third loop for one name and one key
PartialMatch(name, key) ==
    /\ Contains(Lower(key), Lower(name)) \/ Contains(Lower(name), Lower(key))
    /\ ShortAliasGuard(name, key)

\* a resolver that walks the row and returns the first column that matches
\* any of the names
find_column_flexible_rowOrder(row_dict, possible_names) ==
    LET hit(i) == \E n \in 1..Len(possible_names) :
                     \/ Lower(row_dict[i].key) = Lower(possible_names[n])
                     \/ PartialMatch(possible_names[n], row_dict[i].key)
        hits == {i \in 1..Len(row_dict) : hit(i)}
    IN IF hits = {} THEN NaNCell ELSE row_dict[SetMin(hits)].val

\* a resolver that passes over the columns whose value is None or ""
find_column_flexible_skipAbsent(row_dict, possible_names) ==
    LET present == SelectSeq(row_dict,
                             LAMBDA c : ~c.val.nan /\ c.val.s # <<>>)
        N == 1..Len(possible_names)
        exact == {n \in N : possible_names[n] \in Keys(present)}
        lowered == {Lower(k) : k \in Keys(present)}
        ci == {n \in N : Lower(possible_names[n]) \in lowered}
        part(n) == {i \in 1..Len(present) :
                       PartialMatch(possible_names[n], present[i].key)}
        partial == {n \in N : part(n) # {}}
    IN IF exact # {} THEN Get(present, possible_names[SetMin(exact)])
       ELSE IF ci # {}
       THEN Get(present,
                RowKeysLower(present, Lower(possible_names[SetMin(ci)])))
       ELSE IF partial # {}
       THEN present[SetMin(part(SetMin(partial)))].val
       ELSE NaNCell

\* three loops over possible_names, each returning at its first hit: exact
\* key, key equal ignoring case, key that contains the name or is contained
\* in it; None when none hits
find_column_flexible(row_dict, possible_names) ==
    LET N == 1..Len(possible_names)
        exact == {n \in N : possible_names[n] \in Keys(row_dict)}
        lowered == {Lower(k) : k \in Keys(row_dict)}
        ci == {n \in N : Lower(possible_names[n]) \in lowered}
        part(n) == {i \in 1..Len(row_dict) :
                       PartialMatch(possible_names[n], row_dict[i].key)}
        partial == {n \in N : part(n) # {}}
    IN IF exact # {} THEN Get(row_dict, possible_names[SetMin(exact)])
       ELSE IF ci # {}
       THEN Get(row_dict,
                RowKeysLower(row_dict, Lower(possible_names[SetMin(ci)])))
       ELSE IF partial # {}
       THEN row_dict[SetMin(part(SetMin(partial)))].val
       ELSE NaNCell

\* ------------------------------------------------- resolving a sheet row
\* Python truthiness of a cell: None, "" and the number 0 are falsy
TruthyCell(c) == ~c.nan /\ IF c.num THEN c.s # <<"0">> ELSE c.s # <<>>

\* x or y
Or(x, y) == IF TruthyCell(x) THEN x ELSE y

\* if v and isinstance(v, str): v = v.strip()
StripIfTruthy(c) == IF TruthyCell(c) /\ ~c.num THEN Cell(Strip(c.s)) ELSE c

\* the value that the record gets, as text (or None); a number is passed on
\* by its digits, and the number 0, which the loop only tests with `not`, as
\* the falsy None
CellText(c) ==
    IF c.nan \/ (c.num /\ ~TruthyCell(c)) THEN NoneV ELSE Text(c.s)

\* the alias lists of the Trainers Details loop
SkillNames ==
    << <<"s", "k", "i", "l", "l">> >>
CompetencyNames ==
    << <<"c", "o", "m", "p", "e", "t", "e", "n", "c", "y">>,
       <<"c", "o", "m", "p", "e", "t", "e", "n", "c", "e">> >>
CopmetencyNames ==
    << <<"c", "o", "p", "m", "e", "t", "e", "n", "c", "y">> >>
TrainerNameNames ==
    << <<"t", "r", "a", "i", "n", "e", "r", "_", "n", "a", "m", "e">>,
       <<"t", "r", "a", "i", "n", "e", "r", "n", "a", "m", "e">>,
       <<"t", "r", "a", "i", "n", "e", "r", " ", "n", "a", "m", "e">>,
       <<"t", "r", "a", "i", "n", "e", "r">>,
       <<"n", "a", "m", "e">> >>
ExpertiseLevelNames ==
    << <<"e", "x", "p", "e", "r", "t", "i", "s", "e", "_", "l", "e", "v", "e", "l">>,
       <<"e", "x", "p", "e", "r", "t", "i", "s", "e", "l", "e", "v", "e", "l">>,
       <<"e", "x", "p", "e", "r", "t", "i", "s", "e", " ", "l", "e", "v", "e", "l">>,
       <<"e", "x", "p", "e", "r", "t", "i", "s", "e">>,
       <<"l", "e", "v", "e", "l">> >>

\* the four values of one Trainers Details row, found and stripped
ResolveTrainerRow(row) ==
    LET skill_val ==
            Or(find_column_flexible(row, SkillNames),
               Get(row, SkillNames[1]))
        competency_val ==
            Or(find_column_flexible(row, CompetencyNames),
               Get(row, CompetencyNames[1]))
        trainer_name_val ==
            Or(Or(find_column_flexible(row, CopmetencyNames),
                  find_column_flexible(row, TrainerNameNames)),
               Get(row, TrainerNameNames[1]))
        expertise_level_val ==
            Or(find_column_flexible(row, ExpertiseLevelNames),
               Get(row, ExpertiseLevelNames[1]))
    IN [skill |-> CellText(StripIfTruthy(skill_val)),
        competency |-> CellText(StripIfTruthy(competency_val)),
        trainer_name |-> CellText(StripIfTruthy(trainer_name_val)),
        expertise_level |-> CellText(StripIfTruthy(expertise_level_val))]

\* the alias lists of the Training Details loop
TrainingNameNames ==
    << <<"t", "r", "a", "i", "n", "i", "n", "g", "n", "a", "m", "e", "_", "p", "r", "o", "g", "r", "a", "m">>,
       <<"t", "r", "a", "i", "n", "i", "n", "g", "_", "n", "a", "m", "e", "_", "p", "r", "o", "g", "r", "a", "m">>,
       <<"t", "r", "a", "i", "n", "i", "n", "g", "_", "n", "a", "m", "e">>,
       <<"t", "r", "a", "i", "n", "i", "n", "g", "n", "a", "m", "e">>,
       <<"t", "r", "a", "i", "n", "i", "n", "g", " ", "n", "a", "m", "e">>,
       <<"p", "r", "o", "g", "r", "a", "m">>,
       <<"t", "r", "a", "i", "n", "i", "n", "g">> >>
TrainerDirectNames ==
    << <<"t", "r", "a", "i", "n", "e", "r", "_", "n", "a", "m", "e">>,
       <<"t", "r", "a", "i", "n", "e", "r", "n", "a", "m", "e">>,
       <<"t", "r", "a", "i", "n", "e", "r">>,
       <<"t", "r", "a", "i", "n", "e", "r", " ", "n", "a", "m", "e">> >>
TrainerFlexibleNames ==
    << <<"t", "r", "a", "i", "n", "e", "r", "_", "n", "a", "m", "e">>,
       <<"t", "r", "a", "i", "n", "e", "r">>,
       <<"t", "r", "a", "i", "n", "e", "r", "n", "a", "m", "e">>,
       <<"t", "r", "a", "i", "n", "e", "r", " ", "n", "a", "m", "e">>,
       <<"n", "a", "m", "e">> >>
EmailNames ==
    << <<"e", "m", "a", "i", "l", "_", "i", "d">>,
       <<"e", "m", "a", "i", "l", "i", "d">>,
       <<"e", "m", "a", "i", "l">>,
       <<"e", "m", "a", "i", "l", "_", "a", "d", "d", "r", "e", "s", "s">>,
       <<"e", "m", "a", "i", "l", " ", "i", "d">> >>

\* for col_name in names: if col_name in row and row[col_name]: take it
DirectAccess(row, names) ==
    LET hits == {n \in 1..Len(names) : TruthyCell(Get(row, names[n]))}
    IN IF hits = {} THEN NaNCell ELSE Get(row, names[SetMin(hits)])

\* s.lower() is "nan" or "none"
IsNanWord(s) == Lower(s) = <<"n", "a", "n">>
IsNanOrNoneWord(s) == IsNanWord(s) \/ Lower(s) = <<"n", "o", "n", "e">>

\* trainer_names: the cell split at commas, pieces stripped, empty and "nan"
\* pieces dropped; ["Not Assigned"] for an empty, "nan" or "none" cell
TrainerNamesOf(trainer_name_val) ==
    LET trainer_str == IF TruthyCell(trainer_name_val)
                       THEN Strip(trainer_name_val.s) ELSE <<>>
        pieces == Split(trainer_str, ",")
        kept == SelectSeq(pieces, LAMBDA t : Strip(t) # <<>>
                                             /\ ~IsNanWord(Strip(t)))
    IN IF trainer_str # <<>> /\ ~IsNanOrNoneWord(trainer_str)
       THEN [i \in 1..Len(kept) |-> Text(Strip(kept[i]))]
       ELSE <<"Not Assigned">>

\* email_list as it would be if the pieces were not tested for "@"
EmailListOf_unfiltered(email_val) ==
    LET email_str == IF TruthyCell(email_val) THEN Strip(email_val.s)
                     ELSE <<>>
        pieces == IF "," \in {email_str[i] : i \in 1..Len(email_str)}
                  THEN Split(email_str, ",")
                  ELSE IF "\n" \in {email_str[i] : i \in 1..Len(email_str)}
                  THEN Split(email_str, "\n")
                  ELSE SplitWhitespace(email_str)
        kept == SelectSeq(pieces, LAMBDA e : /\ Strip(e) # <<>>
                                             /\ ~IsNanWord(Strip(e)))
    IN IF email_str # <<>> /\ ~IsNanOrNoneWord(email_str)
       THEN [i \in 1..Len(kept) |-> Text(Strip(kept[i]))]
       ELSE <<>>

\* email_list: the cell split at commas, else at newlines, else at
\* whitespace; pieces stripped; empty pieces, pieces without "@" and "nan"
\* dropped
EmailListOf(email_val) ==
    LET email_str == IF TruthyCell(email_val) THEN Strip(email_val.s)
                     ELSE <<>>
        pieces == IF "," \in {email_str[i] : i \in 1..Len(email_str)}
                  THEN Split(email_str, ",")
                  ELSE IF "\n" \in {email_str[i] : i \in 1..Len(email_str)}
                  THEN Split(email_str, "\n")
                  ELSE SplitWhitespace(email_str)
        kept == SelectSeq(pieces, LAMBDA e : /\ Strip(e) # <<>>
                                             /\ Contains(Strip(e), <<"@">>)
                                             /\ ~IsNanWord(Strip(e)))
    IN IF email_str # <<>> /\ ~IsNanOrNoneWord(email_str)
       THEN [i \in 1..Len(kept) |-> Text(Strip(kept[i]))]
       ELSE <<>>

\* training name, trainer list and email list of one Training Details row
ResolveTrainingRow(row) ==
    LET training_name_val ==
            StripIfTruthy(Or(find_column_flexible(row, TrainingNameNames),
                             Get(row, TrainingNameNames[1])))
        direct_trainer == DirectAccess(row, TrainerDirectNames)
        trainer_name_val ==
            StripIfTruthy(IF TruthyCell(direct_trainer) THEN direct_trainer
                          ELSE find_column_flexible(row, TrainerFlexibleNames))
        direct_email == DirectAccess(row, EmailNames)
        email_val ==
            StripIfTruthy(IF TruthyCell(direct_email) THEN direct_email
                          ELSE find_column_flexible(row, EmailNames))
    IN [training_name |-> CellText(training_name_val),
        trainer_names |-> TrainerNamesOf(trainer_name_val),
        email_list |-> EmailListOf(email_val)]

\* ------------------------------------------ the loops over the sheet rows
\* the body of the Trainers Details loop for one row
TrainersLoopStep(l, row) ==
    LET added == TrainerOf(ResolveTrainerRow(row)) IN
    [l EXCEPT !.i = @ + 1,
              !.trainers_to_add = @ \o added,
              !.skipped_count = IF added = <<>> THEN @ + 1 ELSE @]

\* the body of the Training Details loop as it would be if a rejected row
\* were not counted
TrainingsLoopStep_uncounted(l, row) ==
    LET r == ResolveTrainingRow(row)
        emitted == TrainingsOf(r)
    IN [l EXCEPT !.i = @ + 1,
                 !.training_name_val = r.training_name,
                 !.trainer_names =
                     IF Truthy(r.training_name) THEN r.trainer_names ELSE @,
                 !.email_list =
                     IF Truthy(r.training_name) THEN r.email_list ELSE @,
                 !.emitted = emitted,
                 !.trainings_to_add = @ \o emitted]

\* the body of the Training Details loop for one row: a row without a
\* training name is counted and skipped (`continue` before the lists are
\* built), any other row adds one record per trainer
TrainingsLoopStep(l, row) ==
    LET r == ResolveTrainingRow(row)
        emitted == TrainingsOf(r)
    IN [l EXCEPT !.i = @ + 1,
                 !.training_name_val = r.training_name,
                 !.trainer_names =
                     IF Truthy(r.training_name) THEN r.trainer_names ELSE @,
                 !.email_list =
                     IF Truthy(r.training_name) THEN r.email_list ELSE @,
                 !.emitted = emitted,
                 !.trainings_to_add = @ \o emitted,
                 !.skipped_training_count =
                     IF Truthy(r.training_name) THEN @ ELSE @ + 1]

\* ------------------------------------------------ inputs of the functions
MaxHeaderLen == 3
MaxCleanCalls == 2

HeaderChars == {"a", "A", " ", "\t", "\n", "*", "/"}

Headers ==
    UNION {[1..n -> HeaderChars] : n \in 0..MaxHeaderLen}

Column(key, val) == [key |-> key, val |-> val]

\* keys and aliases for find_column_flexible; the cell of a column holds the
\* column's own key, so that the result tells which column was taken
FindKeys == {<<"a">>,
             <<"A">>,
             <<"b">>,
             <<"f", "e", "e">>,
             <<"F", "e", "e">>,
             <<"c", "o", "f", "f", "e", "e">>,
             <<"n", "a", "m", "e", "s">>}

FindNames == {<<"a">>,
              <<"b">>,
              <<"B">>,
              <<"f", "e", "e">>,
              <<"f", "e", "e", "d">>,
              <<"o", "f", "f", "e">>,
              <<"n", "a", "m", "e">>}

FindRows ==
    {<<Column(k, Cell(k))>> : k \in FindKeys}
    \cup {<<Column(p[1], Cell(p[1])), Column(p[2], Cell(p[2]))>> :
             p \in {q \in FindKeys \X FindKeys : q[1] # q[2]}}

\* rows of two columns of which one or both hold no value (None, or "" in
\* the first column)
FindRowsAbsent ==
    UNION {{<<Column(p[1], NaNCell), Column(p[2], Cell(p[2]))>>,
            <<Column(p[1], Cell(<<>>)), Column(p[2], Cell(p[2]))>>,
            <<Column(p[1], Cell(p[1])), Column(p[2], NaNCell)>>,
            <<Column(p[1], NaNCell), Column(p[2], NaNCell)>>} :
             p \in {q \in FindKeys \X FindKeys : q[1] # q[2]}}

FindNameLists ==
    {<<n>> : n \in FindNames}
    \cup {q \in FindNames \X FindNames : q[1] # q[2]}

\* Trainers Details rows: a skill, a competency, a trainer name under one of
\* two headers or no such column, an expertise level under one of two headers
TrainerRawRows ==
    {<<Column(<<"s", "k", "i", "l", "l">>, sk),
       Column(<<"c", "o", "m", "p", "e", "t", "e", "n", "c", "y">>, co)>>
     \o tr \o
     <<Column(lv, ex)>> :
        sk \in {NaNCell,
               Cell(<<>>),
               Cell(<<" ">>),
               Cell(<<"P", "y">>),
               Cell(<<" ", "P", "y", " ">>)},
        co \in {NaNCell, Cell(<<"D", "e", "v">>)},
        tr \in {<<>>}
               \cup {<<Column(h, v)>> :
                       h \in {<<"t", "r", "a", "i", "n", "e", "r", "_", "n", "a", "m", "e">>,
                              <<"c", "o", "p", "m", "e", "t", "e", "n", "c", "y">>},
                       v \in {NaNCell, Cell(<<" ">>), Cell(<<"A", "l">>)}},
        lv \in {<<"e", "x", "p", "e", "r", "t", "i", "s", "e", "_", "l", "e", "v", "e", "l">>, <<"l", "e", "v", "e", "l">>},
        ex \in {NaNCell, Cell(<<"L", "3">>),
                NumCell(<<"3">>), NumCell(<<"0">>)}}

TrainerRowGood == <<Column(<<"s", "k", "i", "l", "l">>, Cell(<<"P", "y">>)),
                    Column(<<"c", "o", "m", "p", "e", "t", "e", "n", "c", "y">>, Cell(<<"D", "e", "v">>)),
                    Column(<<"e", "x", "p", "e", "r", "t", "i", "s", "e", "_", "l", "e", "v", "e", "l">>, Cell(<<"L", "3">>))>>

TrainerRowNoSkill == <<Column(<<"s", "k", "i", "l", "l">>, NaNCell),
                       Column(<<"c", "o", "m", "p", "e", "t", "e", "n", "c", "y">>, Cell(<<"D", "e", "v">>)),
                       Column(<<"e", "x", "p", "e", "r", "t", "i", "s", "e", "_", "l", "e", "v", "e", "l">>, Cell(<<"L", "3">>))>>

\* valid rows that have both the "copmetency" column and a trainer_name
\* column
TrainerRowsBothNames ==
    {<<Column(<<"s", "k", "i", "l", "l">>, Cell(<<"P", "y">>)),
       Column(<<"c", "o", "m", "p", "e", "t", "e", "n", "c", "y">>, Cell(<<"D", "e", "v">>)),
       Column(<<"c", "o", "p", "m", "e", "t", "e", "n", "c", "y">>, cop),
       Column(<<"t", "r", "a", "i", "n", "e", "r", "_", "n", "a", "m", "e">>, tn),
       Column(<<"e", "x", "p", "e", "r", "t", "i", "s", "e", "_", "l", "e", "v", "e", "l">>, Cell(<<"L", "3">>))>> :
        cop \in {NaNCell, Cell(<<>>), Cell(<<" ">>), Cell(<<"C", "y">>)},
        tn \in {NaNCell, Cell(<<"A", "l">>)}}

TrainerRawSheets ==
    {<<r>> : r \in TrainerRawRows \cup TrainerRowsBothNames}
    \cup {<<TrainerRowGood, TrainerRowNoSkill, TrainerRowGood>>}

\* Training Details rows: a training name, a trainer cell, an email cell
TrainingNameCells == {NaNCell,
                      Cell(<<" ">>),
                      Cell(<<"I", "n", "t", "r", "o">>)}

TrainerCells == {NaNCell,
                 Cell(<<"A", "l">>),
                 Cell(<<"A", "l", ",", " ", "B", "o">>),
                 Cell(<<"A", "l", ",", "B", "o", ",", "C", "y">>),
                 Cell(<<",">>),
                 Cell(<<" ", ",", " ">>),
                 Cell(<<"n", "a", "n">>),
                 Cell(<<"N", "a", "N", ",", " ", "A", "l">>),
                 Cell(<<"n", "o", "n", "e">>),
                 Cell(<<"A", "l", ",", " ", "n", "o", "n", "e">>),
                 Cell(<<"A", "l", "\n", "B", "o">>)}

EmailCells == {NaNCell,
               Cell(<<"a", "@", "x">>),
               Cell(<<"a", "@", "x", ",", " ", "b", "@", "x">>),
               Cell(<<"a", "@", "x", "\n", "b", "@", "x">>),
               Cell(<<"a", "@", "x", " ", "b", "@", "x">>),
               Cell(<<"a", "x">>),
               Cell(<<"a", "x", ",", " ", "b", "@", "x">>),
               Cell(<<"n", "a", "n">>)}

TrainingRawRow(n, t, e) ==
    <<Column(<<"t", "r", "a", "i", "n", "i", "n", "g", "_", "n", "a", "m", "e">>, n),
      Column(<<"t", "r", "a", "i", "n", "e", "r", "_", "n", "a", "m", "e">>, t),
      Column(<<"e", "m", "a", "i", "l", "_", "i", "d">>, e)>>

TrainingRawRows ==
    {TrainingRawRow(n, t, e) :
        n \in TrainingNameCells, t \in TrainerCells, e \in EmailCells}

TrainingRawSheets ==
    {<<r>> : r \in TrainingRawRows}
    \cup {<<TrainingRawRow(NaNCell, Cell(<<"A", "l">>), NaNCell),
            TrainingRawRow(Cell(<<"I", "n", "t", "r", "o">>), Cell(<<"A", "l", ",", " ", "B", "o">>), Cell(<<"a", "@", "x">>)),
            TrainingRawRow(Cell(<<" ">>), NaNCell, NaNCell)>>}

\* cells of a boolean column as read_csv gives them: blank, bool (also what
\* row.get(col, False) gives when the column is absent), text, int, float
BoolCells == {NaNCell, BoolCell(TRUE), BoolCell(FALSE),
              Cell(<<"t">>), Cell(<<"T">>), Cell(<<"f">>),
              Cell(<<" ", "t", "r", "u", "e", " ">>),
              Cell(<<"T", "R", "U", "E">>),
              Cell(<<"Y", "e", "s">>), Cell(<<"y">>), Cell(<<"n", "o">>),
              Cell(<<"o", "n">>), Cell(<<"t", "r", "u">>),
              NumCell(<<"1">>), NumCell(<<"0">>), NumCell(<<"2">>),
              NumCell(<<"1", ".", "0">>)}

\* CSV rows with every boolean cell, with and without the two ids
CsvBoolRows ==
    {[manager_empid |-> m, employee_empid |-> e,
      manager_is_trainer |-> x, employee_is_trainer |-> y] :
        m \in {Cell(<<"a">>), NaNCell, Cell(<<" ">>)},
        e \in {Cell(<<"b">>), NaNCell},
        x \in BoolCells,
        y \in {NaNCell, Cell(<<"y", "e", "s">>), Cell(<<"?">>)}}

\* Employee ID cells: blank, text with and without spaces around it, an int,
\* a float (a column with blanks), zero
EmployeeIdCells == {NaNCell, Cell(<<>>), Cell(<<" ">>), Cell(<<"b">>),
                    Cell(<<" ", "b", " ">>), NumCell(<<"7">>),
                    NumCell(<<"7", ".", "0">>), NumCell(<<"0">>),
                    NumCell(<<"0", ".", "0">>)}

CompetencyRawRows == {[employee_empid |-> c] : c \in EmployeeIdCells}

\* ------------------------------------- specification of the function calls
\* a call of one of the functions on one input; nothing is stored
FnInputs ==
    {[kind |-> "clean_headers", columns |-> h] : h \in Headers}
    \cup {[kind |-> "find_column_flexible", row_dict |-> r,
           possible_names |-> n] :
              r \in FindRows \cup FindRowsAbsent, n \in FindNameLists}
    \cup {[kind |-> "trainers", rows |-> rs] : rs \in TrainerRawSheets}
    \cup {[kind |-> "trainings", rows |-> rs] : rs \in TrainingRawSheets}
    \cup {[kind |-> "csv_row", row |-> r] : r \in CsvBoolRows}
    \cup {[kind |-> "competency_row", row |-> r] : r \in CompetencyRawRows}

FnLoc(call) ==
    IF call.kind = "clean_headers"
    THEN [calls |-> 0, columns |-> call.columns, previous |-> call.columns]
    ELSE IF call.kind = "find_column_flexible"
    THEN [result |-> NaNCell]
    ELSE IF call.kind = "trainers"
    THEN [i |-> 0, trainers_to_add |-> <<>>, skipped_count |-> 0]
    ELSE IF call.kind = "csv_row"
    THEN [manager_employees_to_add |-> <<>>, skipped_count |-> 0]
    ELSE IF call.kind = "competency_row"
    THEN [competencies_to_add |-> <<>>, skipped_competency_count |-> 0]
    ELSE [i |-> 0, trainings_to_add |-> <<>>, skipped_training_count |-> 0,
          training_name_val |-> NoneV, trainer_names |-> <<>>,
          email_list |-> <<>>, emitted |-> <<>>]

FnInit ==
    /\ db = InitStore
    /\ tx = InitStore
    /\ sess = CleanSess
    /\ env = [seqName |-> "conventional"]
    /\ pre = InitStore
    /\ err = NoErr
    /\ log = {}
    /\ runs = 0
    /\ routeOps = 0
    /\ lastOk = {}
    /\ pc = "call"
    /\ run \in FnInputs
    /\ loc = FnLoc(run)

\* df = clean_headers(df), on the header as it is now
CleanHeaders ==
    /\ run.kind = "clean_headers"
    /\ loc.calls < MaxCleanCalls
    /\ loc' = [calls |-> loc.calls + 1,
               columns |-> clean_headers(loc.columns),
               previous |-> loc.columns]
    /\ pc' = "done"
    /\ UNCHANGED <<db, tx, sess, env, run, pre, err, log, runs, routeOps,
                   lastOk>>

FindColumnFlexible ==
    /\ run.kind = "find_column_flexible"
    /\ pc = "call"
    /\ loc' = [result |->
                  find_column_flexible(run.row_dict, run.possible_names)]
    /\ pc' = "done"
    /\ UNCHANGED <<db, tx, sess, env, run, pre, err, log, runs, routeOps,
                   lastOk>>

\* one iteration of `for i, row in enumerate(df_trainers.to_dict('records'))`
TrainersLoop ==
    /\ run.kind = "trainers"
    /\ pc = "call"
    /\ loc' = TrainersLoopStep(loc, run.rows[loc.i + 1])
    /\ pc' = IF loc.i + 1 = Len(run.rows) THEN "done" ELSE "call"
    /\ UNCHANGED <<db, tx, sess, env, run, pre, err, log, runs, routeOps,
                   lastOk>>

\* one iteration of `for i, row in enumerate(df_trainings.to_dict('records'))`
TrainingsLoop ==
    /\ run.kind = "trainings"
    /\ pc = "call"
    /\ loc' = TrainingsLoopStep(loc, run.rows[loc.i + 1])
    /\ pc' = IF loc.i + 1 = Len(run.rows) THEN "done" ELSE "call"
    /\ UNCHANGED <<db, tx, sess, env, run, pre, err, log, runs, routeOps,
                   lastOk>>

\* the body of `for i, row in df.iterrows()` of the CSV loader for one row
CsvRow ==
    /\ run.kind = "csv_row"
    /\ pc = "call"
    /\ LET added == ManagerEmployeeOf(run.row)
       IN loc' = [manager_employees_to_add |-> added,
                  skipped_count |-> IF added = <<>> THEN 1 ELSE 0]
    /\ pc' = "done"
    /\ UNCHANGED <<db, tx, sess, env, run, pre, err, log, runs, routeOps,
                   lastOk>>

\* the body of `for i, row in df_competency.iterrows()` for one row
CompetencyRow ==
    /\ run.kind = "competency_row"
    /\ pc = "call"
    /\ LET added == CompetencyOf(run.row)
       IN loc' = [competencies_to_add |-> added,
                  skipped_competency_count |-> IF added = <<>> THEN 1 ELSE 0]
    /\ pc' = "done"
    /\ UNCHANGED <<db, tx, sess, env, run, pre, err, log, runs, routeOps,
                   lastOk>>

FnNext ==
    \/ CsvRow
    \/ CompetencyRow
    \/ CleanHeaders
    \/ FindColumnFlexible
    \/ TrainersLoop
    \/ TrainingsLoop

FnSpec == FnInit /\ [][FnNext]_vars

\* ------------------------------------------------------------------ claims
ClearedTables == {DeleteOrder[i] : i \in 1..Len(DeleteOrder)}

Excel == run.kind = "excel"
Csv == run.kind = "csv"

\* the rows that s held in t are still the first rows of t in s2 (rows that
\* other requests committed in the meantime come after them)
Kept(s, s2, t) ==
    /\ Len(s2.tbl[t]) >= Len(s.tbl[t])
    /\ \A i \in 1..Len(s.tbl[t]) : s2.tbl[t][i] = s.tbl[t][i]

\* C1 (as claimed): once load_all_from_excel has raised, every table it
\* cleared still holds the rows it held before the run started.
C1_AllOrNothingReload ==
    (Excel /\ pc = "raised") =>
        \A t \in ClearedTables : Kept(pre, db, t)

\* C2 (as claimed): when a structural error (missing sheet, missing CSV
\* column) is raised, no DELETE, INSERT, sequence restart or commit has been
\* executed in the run.
C2_StructuralErrorBeforeMutation ==
    (pc = "raised" /\ err.kind \in {"sheet_not_found", "missing_columns"})
        => log = {}

AllRowsRejected(wb) ==
    /\ wb.trainers.present /\ wb.trainings.present
    /\ \A i \in 1..Len(wb.trainers.rows) : TrainerOf(wb.trainers.rows[i]) = <<>>
    /\ \A i \in 1..Len(wb.trainings.rows) :
          TrainingsOf(wb.trainings.rows[i]) = <<>>
    /\ \A i \in 1..Len(wb.competency.rows) :
          CompetencyOf(wb.competency.rows[i]) = <<>>

\* C4: when every row of all three sheets is rejected, the load never
\* reaches the data commit, inserts nothing, never returns normally, and the
\* error it raises is "no valid data".
C4_EmptyResultNeverSucceeds ==
    (Excel /\ AllRowsRejected(run.wb)) =>
        /\ pc \notin {"xl_commit", "xl_fixids", "returned"}
        /\ "INSERT" \notin log /\ "COMMIT_DATA" \notin log
        /\ pc = "raised" => err.kind = "no_valid_data"

\* C4 witness: a workbook with rows in all three sheets, all rejected, has
\* raised "no valid data".
C4_Witness ==
    /\ Excel /\ pc = "raised" /\ err.kind = "no_valid_data"
    /\ run.wb.competency.present
    /\ loc.skipped_count > 0 /\ loc.skipped_training_count > 0
    /\ loc.skipped_competency_count > 0

\* C5 (as claimed): whenever load_manager_employee_from_csv has raised,
\* manager_employee holds its pre-run rows and no user provisioned during
\* the run persists.
C5_CsvRaiseRestoresStore ==
    (Csv /\ pc = "raised") =>
        /\ db.tbl["manager_employee"] = pre.tbl["manager_employee"]
        /\ db.tbl["users"] = pre.tbl["users"]

\* the four required columns that a header lacks
AbsentRequired(columns) ==
    {"manager_empid", "manager_name", "employee_empid", "employee_name"}
        \ columns

\* C6: with a required CSV column absent the loader raises an error naming
\* the missing columns, never reaches user provisioning or row insertion,
\* and the stored relationship rows and users are those of before the run.
C6_MissingColumnNoPartialLoad ==
    (Csv /\ AbsentRequired(run.csv.columns) # {}) =>
        /\ pc \notin {"csv_users", "csv_rows", "csv_add", "csv_commit",
                      "returned"}
        /\ db.tbl["manager_employee"] = pre.tbl["manager_employee"]
        /\ db.tbl["users"] = pre.tbl["users"]
        /\ loc.new_users = <<>> /\ loc.manager_employees_to_add = <<>>
        /\ pc = "raised" =>
              /\ err.kind = "missing_columns"
              /\ \E names \in err.detail :
                    {names[i] : i \in 1..Len(names)}
                        = AbsentRequired(run.csv.columns)
              /\ tx.tbl["manager_employee"] = pre.tbl["manager_employee"]

\* C6 witness: the loader raised for a missing column while relationship
\* rows were stored.
C6_Witness ==
    /\ Csv /\ pc = "raised" /\ err.kind = "missing_columns"
    /\ pre.tbl["manager_employee"] # <<>>
    /\ "DELETE" \in log

\* C7 (as claimed): every relationship row handed to the insert has its
\* manager_empid and employee_empid among the usernames that exist then.
C7_RelationForeignKeysSatisfiable ==
    (Csv /\ pc = "csv_commit") =>
        \A i \in 1..Len(loc.manager_employees_to_add) :
            /\ loc.manager_employees_to_add[i].manager_empid \in Usernames(tx)
            /\ loc.manager_employees_to_add[i].employee_empid \in Usernames(tx)

\* C8: a user that existed before a CSV run is still stored unchanged (same
\* credential) during and after it, no username is stored twice, and the
\* users built for provisioning are only those whose id was not stored.
C8_IdentityCreationIdempotent ==
    Csv =>
        /\ Len(db.tbl["users"]) >= Len(pre.tbl["users"])
        /\ \A i \in 1..Len(pre.tbl["users"]) :
              db.tbl["users"][i] = pre.tbl["users"][i]
        /\ \A i, j \in 1..Len(db.tbl["users"]) :
              i # j => db.tbl["users"][i].username # db.tbl["users"][j].username
        /\ \A i \in 1..Len(loc.new_users) :
              loc.new_users[i].username \notin Usernames(pre)

\* C8 witness: a CSV run has returned whose ids were all provisioned by an
\* earlier run, so it provisioned nothing.
C8_Witness ==
    /\ Csv /\ pc = "returned" /\ loc.new_users = <<>>
    /\ \E i \in 1..Len(pre.tbl["users"]) :
          /\ pre.tbl["users"][i].hashed_password[1] = "password123"
          /\ pre.tbl["users"][i].username \in AllUserIds(run.csv.rows)

\* what load_all_from_excel handed to the insert for table t
ToAdd(t) ==
    IF t = "trainers" THEN loc.trainers_to_add
    ELSE IF t = "training_details" THEN loc.trainings_to_add
    ELSE loc.competencies_to_add

\* the rows of t are the records of recs, in order, with ids 1..Len(recs)
NumberedFromOne(s, t, recs) ==
    /\ Len(s.tbl[t]) = Len(recs)
    /\ \A i \in 1..Len(recs) :
          s.tbl[t][i].id = i /\ s.tbl[t][i].rec = recs[i]

NoLiveDependents(s, t) ==
    \A c \in DepTables : <<c, t>> \in References => s.tbl[c] = <<>>

C10_SequencePositionedAfterMax ==
    (Excel /\ pc = "returned" /\ "COMMIT_IDS" \in log) =>
        \A t \in SeqTables :
            ("UPDATE " \o t) \in log =>
                db.seq[t] = SetMax(Ids(db, t)) + 1

\* C11 (as claimed): when a successful load has returned and a row of a table
\* that references training_details exists, Step 6 has not renumbered
\* training_details, so no referenced id was changed.
C11_FkGuardedResequencingSkip ==
    (Excel /\ pc = "returned" /\ ~NoLiveDependents(db, "training_details"))
        => "UPDATE training_details" \notin log

\* the records of recs are stored in t, in order, in consecutive rows
StoredInOrder(s, t, recs) ==
    \E off \in 0..(Len(s.tbl[t]) - Len(recs)) :
        \A i \in 1..Len(recs) : s.tbl[t][off + i].rec = recs[i]

\* C12: when load_all_from_excel has returned after its Step 6 failed (no
\* commit of Step 6), no error is propagated and every record committed by
\* the main commit is still stored, in the committed image and after the
\* session is closed.
C12_ResequencingFailureIsCosmetic ==
    (Excel /\ pc = "returned" /\ "COMMIT_IDS" \notin log) =>
        /\ err = NoErr
        /\ "COMMIT_DATA" \in log
        /\ \A t \in SeqTables : StoredInOrder(db, t, ToAdd(t))

\* C12 witness: a load has returned although Step 6 raised after the
\* renumbering UPDATE of trainings that were inserted with ids from 2.
C12_Witness ==
    /\ Excel /\ pc = "returned" /\ sess.aborted
    /\ "COMMIT_IDS" \notin log
    /\ Ids(db, "training_details") = {2, 3}
    /\ Len(db.tbl["trainers"]) = 2

\* C13: with no other request served, a successful reload leaves in each
\* target table exactly the records of its workbook (no earlier row
\* survives), and when the previous invocation was a successful reload of
\* the same workbook the tables hold the same rows, ids included.
C13_ReloadIdempotent ==
    (Excel /\ pc = "returned" /\ routeOps = 0) =>
        \A t \in SeqTables :
            /\ Len(db.tbl[t]) = Len(ToAdd(t))
            /\ \A i \in 1..Len(ToAdd(t)) : db.tbl[t][i].rec = ToAdd(t)[i]
            /\ run.wb \in lastOk => db.tbl[t] = pre.tbl[t]

\* C13 witness: the second of two successful reloads of the same workbook
\* has returned, with rows in all three tables.
C13_Witness ==
    /\ Excel /\ pc = "returned" /\ routeOps = 0
    /\ run.wb \in lastOk
    /\ \A t \in SeqTables : db.tbl[t] # <<>> /\ pre.tbl[t] # <<>>

\* a Training Details iteration has just processed a row that was accepted
AcceptedTrainingRow ==
    /\ run.kind = "trainings"
    /\ loc.i >= 1
    /\ Truthy(loc.training_name_val)

\* C14 (as claimed): the iteration over an accepted Training Details row
\* emits max(1, number of trainers) records, never zero, one per trainer in
\* the order of the cell, all with the training name of the row.
C14_FanoutCardinality ==
    AcceptedTrainingRow =>
        /\ Len(loc.emitted) = IF Len(loc.trainer_names) >= 1
                              THEN Len(loc.trainer_names) ELSE 1
        /\ \A i \in 1..Len(loc.emitted) :
              /\ i <= Len(loc.trainer_names) =>
                    loc.emitted[i].trainer_name = loc.trainer_names[i]
              /\ loc.emitted[i].training_name = loc.training_name_val

\* C15: in the records of an accepted row, with T the trainer list and E the
\* email list: trainer i has email i when E is at least as long as T; every
\* trainer has the one email when E has one and T more than one; otherwise
\* trainer i has email i up to the length of E and no email beyond it.
C15_FanoutPairing ==
    AcceptedTrainingRow =>
        LET T == loc.trainer_names
            E == loc.email_list
        IN /\ Len(loc.emitted) = Len(T)
           /\ \A i \in 1..Len(T) :
                 loc.emitted[i].email =
                     IF Len(E) >= Len(T) THEN E[i]
                     ELSE IF Len(E) = 1 /\ Len(T) > 1 THEN E[1]
                     ELSE IF i <= Len(E) THEN E[i]
                     ELSE NoneV

\* C15 witness: three trainers with two emails: the third trainer has no
\* email.
C15_Witness ==
    /\ AcceptedTrainingRow
    /\ loc.trainer_names = <<"Al", "Bo", "Cy">>
    /\ loc.email_list = <<"a@x", "b@x">>
    /\ Len(loc.emitted) = 3
    /\ loc.emitted[2].email = "b@x" /\ loc.emitted[3].email = NoneV

\* a call of find_column_flexible has returned
FindReturned == run.kind = "find_column_flexible" /\ pc = "done"

\* every cell of the row holds the key of its column
KeyedRow == run.row_dict \in FindRows

\* the two strings are equal ignoring case
SameIgnoringCase(a, b) == Lower(a) = Lower(b)

\* one of the two strings contains the other, ignoring case
SubstringRelated(a, b) ==
    Contains(Lower(a), Lower(b)) \/ Contains(Lower(b), Lower(a))

\* C16: the result is the column of the first alias that is a key of the
\* row; when no alias is a key, the column that equals, ignoring case, the
\* first alias with such a column; when there is none either, a column
\* substring-related to the first alias (longer than 3 characters) that has
\* such a column; None only when no tier matches.  (The cell of a column
\* holds the column's key.)
C16_ResolverPrecedence ==
    (FindReturned /\ KeyedRow) =>
        LET names == run.possible_names
            keys == Keys(run.row_dict)
            res == loc.result
            N == 1..Len(names)
            exact == {n \in N : names[n] \in keys}
            ci == {n \in N : \E k \in keys : SameIgnoringCase(names[n], k)}
            sub == {n \in N : /\ Len(names[n]) > 3
                              /\ \E k \in keys : SubstringRelated(names[n], k)}
        IN /\ exact # {} => res = Cell(names[SetMin(exact)])
           /\ (exact = {} /\ ci # {}) =>
                 /\ ~res.nan /\ res.s \in keys
                 /\ SameIgnoringCase(res.s, names[SetMin(ci)])
           /\ (exact = {} /\ ci = {} /\ sub # {}) =>
                 /\ ~res.nan /\ res.s \in keys
                 /\ SubstringRelated(names[SetMin(sub)], res.s)
           /\ (exact = {} /\ ci = {} /\ sub = {}) => res.nan

\* C16 witness: aliases ["a", "b"], a row with the columns b and a, in this
\* order: the value of a is returned.
C16_Witness ==
    /\ FindReturned
    /\ run.possible_names = << <<"a">>, <<"b">> >>
    /\ run.row_dict = <<Column(<<"b">>, Cell(<<"b">>)),
                        Column(<<"a">>, Cell(<<"a">>))>>
    /\ loc.result = Cell(<<"a">>)

\* C17: an alias of at most 3 characters finds a column only when the two
\* are equal ignoring case: when no column equals an alias ignoring case and
\* no alias longer than 3 characters is substring-related to a column, the
\* result is None, whatever the short aliases contain or are contained in.
C17_ShortAliasGuard ==
    FindReturned =>
        LET names == run.possible_names
            keys == Keys(run.row_dict)
        IN (\A n \in 1..Len(names) : \A k \in keys :
               /\ ~SameIgnoringCase(names[n], k)
               /\ Len(names[n]) > 3 => ~SubstringRelated(names[n], k))
           => loc.result.nan

\* C17 witness: alias "fee" on a row whose only column is "coffee" has
\* returned None.
C17_Witness ==
    /\ FindReturned
    /\ run.possible_names = << <<"f", "e", "e">> >>
    /\ Keys(run.row_dict) = {<<"c", "o", "f", "f", "e", "e">>}
    /\ loc.result = NaNCell

\* C18 (as claimed): cleaning a header that has been cleaned changes
\* nothing.
C18_NormalizationIdempotent ==
    (run.kind = "clean_headers" /\ loc.calls >= 2)
        => loc.columns = loc.previous

\* the cell that the aliases find in the row is None or a blank string
AbsentOrEmpty(row, names) ==
    LET c == find_column_flexible(row, names)
    IN c.nan \/ (~c.num /\ Strip(c.s) = <<>>)

\* C19: in the Training Details loop every row whose training name is
\* absent or empty adds 1 to the skip counter and no record; the rows after
\* it are processed, and at the end accepted rows + skip counter = rows.
C19_TrainingNameRequired ==
    run.kind = "trainings" =>
        LET rejected == {j \in 1..loc.i :
                            AbsentOrEmpty(run.rows[j], TrainingNameNames)}
            accepted == (1..loc.i) \ rejected
        IN /\ loc.skipped_training_count = Cardinality(rejected)
           /\ loc.i \in rejected => loc.emitted = <<>>
           /\ \A k \in 1..Len(loc.trainings_to_add) :
                 Truthy(loc.trainings_to_add[k].training_name)
           /\ accepted = {} => loc.trainings_to_add = <<>>
           /\ pc = "call" <=> loc.i < Len(run.rows)
           /\ pc = "done" =>
                 Cardinality(accepted) + loc.skipped_training_count
                     = Len(run.rows)

\* C19 witness: a sheet of three rows, the first and the last without a
\* training name, was processed to its end: two skipped, and the two records
\* of the row between them added.
C19_Witness ==
    /\ run.kind = "trainings" /\ pc = "done"
    /\ Len(run.rows) = 3 /\ loc.i = 3
    /\ loc.skipped_training_count = 2
    /\ Len(loc.trainings_to_add) = 2

\* C20 (as claimed): in the Trainers Details loop a row adds a Trainer
\* exactly when skill, competency and expertise level are all found
\* non-empty (not None, not a blank string), and adds 1 to the skip counter
\* otherwise; a row is never rejected for its trainer name, which is
\* "Not Assigned" when no name is found.
C20_TrainerRequiredFields ==
    run.kind = "trainers" =>
        LET ok(j) == /\ ~AbsentOrEmpty(run.rows[j], SkillNames)
                     /\ ~AbsentOrEmpty(run.rows[j], CompetencyNames)
                     /\ ~AbsentOrEmpty(run.rows[j], ExpertiseLevelNames)
            accepted == {j \in 1..loc.i : ok(j)}
            named(j) == \/ ~AbsentOrEmpty(run.rows[j], CopmetencyNames)
                        \/ ~AbsentOrEmpty(run.rows[j], TrainerNameNames)
        IN /\ Len(loc.trainers_to_add) = Cardinality(accepted)
           /\ loc.skipped_count = loc.i - Cardinality(accepted)
           /\ (loc.i >= 1 /\ loc.i \in accepted) =>
                 LET t == loc.trainers_to_add[Len(loc.trainers_to_add)]
                 IN /\ Truthy(t.trainer_name)
                    /\ ~named(loc.i) <=> t.trainer_name = "Not Assigned"

\* C21: the DELETE statements of load_all_from_excel come in a topological
\* order of the foreign keys: every table that references a cleared table
\* is cleared before it, so whatever the store holds when a reload starts,
\* no DELETE is stopped by a foreign key.
C21_DeletionOrderTopological ==
    /\ \A i \in 1..Len(DeleteOrder), c \in Tables :
          <<c, DeleteOrder[i]>> \in References =>
              \E j \in 1..(i - 1) : DeleteOrder[j] = c
    /\ (Excel /\ pc = "xl_clear") =>
          LET r == DeleteAll(tx, DeleteOrder)
          IN /\ r.status = "ok"
             /\ \A t \in ClearedTables : r.store.tbl[t] = <<>>

\* C21 witness: a reload has cleared a store that held trainings, a shared
\* assignment that references one of them and a submission that references
\* both.
C21_Witness ==
    /\ Excel /\ pc = "xl_seq" /\ "DELETE" \in log
    /\ pre.tbl["training_details"] # <<>>
    /\ pre.tbl["shared_assignments"] # <<>>
    /\ pre.tbl["assignment_submissions"] # <<>>
    /\ \A t \in ClearedTables : tx.tbl[t] = <<>>

\* the trainer column of the row that the iteration has just processed
TrainerCellOfRow ==
    Get(run.rows[loc.i], <<"t", "r", "a", "i", "n", "e", "r", "_", "n", "a", "m", "e">>)

\* the trainer list as the rule states it: split at commas if there is one,
\* else at newlines, else one piece; pieces trimmed; empty, "nan" and "none"
\* pieces dropped; "Not Assigned" when no piece remains
TrainerTokens(cell) ==
    LET str == IF cell.nan THEN <<>> ELSE Strip(cell.s)
        chars == {str[i] : i \in 1..Len(str)}
        pieces == IF "," \in chars THEN Split(str, ",")
                  ELSE IF "\n" \in chars THEN Split(str, "\n")
                  ELSE <<str>>
        kept == SelectSeq(pieces, LAMBDA t : Strip(t) # <<>>
                                             /\ ~IsNanOrNoneWord(Strip(t)))
    IN IF kept = <<>> THEN <<"Not Assigned">>
       ELSE [i \in 1..Len(kept) |-> Text(Strip(kept[i]))]

\* C22 (as claimed): the trainer list of an accepted Training Details row is
\* its trainer cell split at commas, else at newlines, else whole, with the
\* pieces trimmed and the empty, "nan" and "none" pieces dropped, and is
\* ["Not Assigned"] when no piece remains.
C22_TrainerTokenization ==
    AcceptedTrainingRow => loc.trainer_names = TrainerTokens(TrainerCellOfRow)

\* the email column of the row that the iteration has just processed
EmailCellOfRow ==
    Get(run.rows[loc.i], <<"e", "m", "a", "i", "l", "_", "i", "d">>)

\* the tokens of an email cell: split at commas if there is one, else at
\* newlines if there is one, else at whitespace; trimmed; those with "@"
EmailTokens(cell) ==
    LET str == IF cell.nan THEN <<>> ELSE cell.s
        chars == {str[i] : i \in 1..Len(str)}
        pieces == IF "," \in chars THEN Split(str, ",")
                  ELSE IF "\n" \in chars THEN Split(str, "\n")
                  ELSE SplitWhitespace(str)
        trimmed == [i \in 1..Len(pieces) |-> Strip(pieces[i])]
    IN SelectSeq(trimmed, LAMBDA e : \E k \in 1..Len(e) : e[k] = "@")

\* C23: the email list of an accepted Training Details row is its email
\* cell split at commas, else at newlines, else at whitespace, with the
\* tokens trimmed and only those containing "@" kept, in their order; the
\* email of every record of the row is None or one of these tokens.
C23_EmailTokenization ==
    AcceptedTrainingRow =>
        LET tokens == EmailTokens(EmailCellOfRow) IN
        /\ loc.email_list = [i \in 1..Len(tokens) |-> Text(tokens[i])]
        /\ \A i \in 1..Len(loc.emitted) :
              \/ loc.emitted[i].email = NoneV
              \/ \E k \in 1..Len(tokens) :
                    loc.emitted[i].email = Text(tokens[k])

\* C23 witness: the cell "ax, b@x": the token without "@" is dropped, and
\* the record of the row carries the token that has one.
C23_Witness ==
    /\ AcceptedTrainingRow
    /\ EmailCellOfRow = Cell(<<"a", "x", ",", " ", "b", "@", "x">>)
    /\ loc.email_list = <<"b@x">>
    /\ Len(loc.emitted) = 2
    /\ loc.emitted[2].email = "b@x"

\* the value is present: not None and not ""
Present(c) == ~c.nan /\ c.s # <<>>

\* the alias matches the key in one of the three tiers
AliasMatches(name, key) ==
    \/ name = key
    \/ SameIgnoringCase(name, key)
    \/ Len(name) > 3 /\ SubstringRelated(name, key)

\* C24 (as claimed): find_column_flexible returns the first non-absent
\* match: with the key of an earlier alias holding no value and the key of a
\* later alias holding one, the value of the later alias is returned; the
\* result is None only when no alias resolves to a present value.
C24_FirstNonAbsentMatch ==
    FindReturned =>
        LET names == run.possible_names
            row == run.row_dict
        IN /\ (\E n \in 1..Len(names), i \in 1..Len(row) :
                  AliasMatches(names[n], row[i].key) /\ Present(row[i].val))
              => Present(loc.result)
           /\ (/\ Len(names) = 2
               /\ names[1] \in Keys(row) /\ names[2] \in Keys(row)
               /\ ~Present(Get(row, names[1]))
               /\ Present(Get(row, names[2])))
              => loc.result = Get(row, names[2])

\* C24 (amended): find_column_flexible returns the value of the first match,
\* present or not: when an alias is a key of the row, the result is the
\* value under the first such alias, also when that value is None or "" and
\* a later alias has a value; when no alias matches a column in any tier the
\* result is None; in every other case it is the value of a column that an
\* alias matches.
C24_FirstMatchEvenIfAbsent ==
    FindReturned =>
        LET names == run.possible_names
            row == run.row_dict
            N == 1..Len(names)
            exact == {n \in N : names[n] \in Keys(row)}
            matched == {i \in 1..Len(row) :
                          \E n \in N : AliasMatches(names[n], row[i].key)}
        IN /\ exact # {} => loc.result = Get(row, names[SetMin(exact)])
           /\ matched = {} => loc.result = NaNCell
           /\ matched # {} => \E i \in matched : loc.result = row[i].val

\* C24 witness: aliases ["a", "b"], column a without a value, column b with
\* one: the result is the None of column a.
C24_Witness ==
    /\ FindReturned
    /\ run.possible_names = << <<"a">>, <<"b">> >>
    /\ run.row_dict = <<Column(<<"a">>, NaNCell),
                        Column(<<"b">>, Cell(<<"b">>))>>
    /\ loc.result = NaNCell

\* the cell holds a value that is not blank
NonBlank(c) == ~c.nan /\ Strip(c.s) # <<>>

\* C25 (as claimed): the trainer name of an accepted Trainers Details row is
\* the value of the "copmetency" column when that is non-empty, also when a
\* trainer_name column holds another value; the value of the trainer_name
\* column only when "copmetency" is absent or empty; "Not Assigned" only
\* when both are absent or empty.
C25_MisspelledHeaderFirst ==
    (run.kind = "trainers" /\ loc.i = 1 /\ Len(loc.trainers_to_add) = 1) =>
        LET cop == Get(run.rows[1], <<"c", "o", "p", "m", "e", "t", "e", "n", "c", "y">>)
            tn == Get(run.rows[1], <<"t", "r", "a", "i", "n", "e", "r", "_", "n", "a", "m", "e">>)
        IN loc.trainers_to_add[1].trainer_name =
              IF NonBlank(cop) THEN Text(Strip(cop.s))
              ELSE IF NonBlank(tn) THEN Text(Strip(tn.s))
              ELSE "Not Assigned"

\* C26 (as claimed): an exception raised while one row of a sheet is
\* processed never ends the import: the row is counted as skipped and the
\* rows after it are processed.
C26_RowFailuresNeverPropagate ==
    Excel =>
        /\ ~(pc = "raised" /\ err.kind = "row_error")
        /\ pc \in {"xl_trainings", "xl_competency", "xl_add", "xl_commit",
                    "xl_fixids", "returned"} =>
              loc.skipped_count >= Cardinality(run.wb.trainers.raises)
        /\ pc \in {"xl_add", "xl_commit", "xl_fixids", "returned"} =>
              loc.skipped_competency_count
                  >= Cardinality(run.wb.competency.raises)

\* the words that count as true
TrueWords == {<<"t">>, <<"t", "r", "u", "e">>, <<"1">>, <<"y", "e", "s">>,
              <<"y">>}

\* the cell is the boolean true, or its text, trimmed and in lower case, is
\* one of the words
CellIsTrue(c) ==
    /\ ~c.nan
    /\ IF c.bool THEN c = BoolCell(TRUE) ELSE Strip(Lower(c.s)) \in TrueWords

\* the id cell holds more than blanks
IdPresent(c) == ~c.nan /\ Strip(c.s) # <<>>

\* C27: a boolean field of a CSV row is true exactly when its cell is the
\* boolean true or its trimmed, lower-cased text is one of t, true, 1, yes,
\* y; a blank cell, the default of an absent column and every other token
\* give false; the row is added whenever both ids are present, whatever its
\* boolean cells hold.
C27_TolerantBooleans ==
    (run.kind = "csv_row" /\ pc = "done") =>
        LET row == run.row
            added == loc.manager_employees_to_add
        IN /\ Len(added) = IF IdPresent(row.manager_empid)
                               /\ IdPresent(row.employee_empid)
                            THEN 1 ELSE 0
           /\ loc.skipped_count = 1 - Len(added)
           /\ \A i \in 1..Len(added) :
                 /\ added[i].manager_is_trainer
                       <=> CellIsTrue(row.manager_is_trainer)
                 /\ added[i].employee_is_trainer
                       <=> CellIsTrue(row.employee_is_trainer)

\* C27 witness: a row with " true " for the manager and "?" for the
\* employee is added with the flags true and false.
C27_Witness ==
    /\ run.kind = "csv_row" /\ pc = "done"
    /\ run.row.manager_is_trainer = Cell(<<" ", "t", "r", "u", "e", " ">>)
    /\ run.row.employee_is_trainer = Cell(<<"?">>)
    /\ Len(loc.manager_employees_to_add) = 1
    /\ loc.manager_employees_to_add[1].manager_is_trainer
    /\ ~loc.manager_employees_to_add[1].employee_is_trainer

\* C28: whenever load_employee_competency_from_excel raises, the database is
\* in its original state, as the error log of the function says:
\* employee_competency holds the rows it held before the call and the foreign
\* key of employee_empid is in place as before
C28_RaiseLeavesOriginalState ==
    (run.kind = "competency" /\ pc = "raised" /\ "ORIGINAL_STATE" \in log)
        => /\ db.tbl["employee_competency"] = pre.tbl["employee_competency"]
           /\ db.fk = pre.fk

\* the tables of the users and of the manager-employee relations
IdentityTables == {"users", "manager_employee"}

\* the rows of t, committed and in the open transaction, are those the run
\* found
SameAsBefore(t) == db.tbl[t] = pre.tbl[t] /\ tx.tbl[t] = pre.tbl[t]

\* every row that q held is still in r at its place, unchanged
KeepsRows(q, r) == Len(r) >= Len(q) /\ SubSeq(r, 1, Len(q)) = q

\* C29: during and after a run of load_all_from_excel, successful or failed,
\* users and manager_employee hold the rows the run found; during and after a
\* run of load_manager_employee_from_csv, successful or failed, trainers,
\* training_details, employee_competency and the tables that depend on
\* trainings hold the rows the run found, and every users row the run found
\* is still stored unchanged.
C29_FrameCondition ==
    /\ Excel => \A t \in IdentityTables : SameAsBefore(t)
    /\ Csv => /\ \A t \in Tables \ IdentityTables : SameAsBefore(t)
              /\ KeepsRows(pre.tbl["users"], db.tbl["users"])
              /\ KeepsRows(pre.tbl["users"], tx.tbl["users"])

\* C29 witness: a CSV run that found trainers, trainings and a training
\* request stored has returned after storing relations and a new user.
C29_Witness ==
    /\ Csv /\ pc = "returned"
    /\ pre.tbl["trainers"] # <<>> /\ pre.tbl["training_details"] # <<>>
    /\ pre.tbl["training_assignments"] # <<>>
    /\ db.tbl["manager_employee"] # <<>>
    /\ Len(db.tbl["users"]) > Len(pre.tbl["users"])

\* the value of a NOT NULL text column is there and is not empty (records of
\* the sheets hold text, ids are kept by their characters)
Filled(v) == v # NoneV /\ v # ""
FilledId(u) == Len(u) > 0

\* C30: every record that a row loop has put on its list to insert has its
\* NOT NULL columns filled: a Trainer its skill, competency, trainer_name and
\* expertise_level, a TrainingDetail its training_name and trainer_name, an
\* EmployeeCompetency its employee_empid, a ManagerEmployee its manager_empid
\* and employee_empid (and its two flags are booleans); so no row makes the
\* import fail on a NOT NULL column.
C30_NotNullSatisfied ==
    /\ run.kind = "trainers" =>
          \A i \in 1..Len(loc.trainers_to_add) :
              LET t == loc.trainers_to_add[i] IN
              /\ Filled(t.skill) /\ Filled(t.competency)
              /\ Filled(t.trainer_name) /\ Filled(t.expertise_level)
    /\ run.kind = "trainings" =>
          \A i \in 1..Len(loc.trainings_to_add) :
              LET t == loc.trainings_to_add[i] IN
              Filled(t.training_name) /\ Filled(t.trainer_name)
    /\ run.kind = "competency_row" =>
          \A i \in 1..Len(loc.competencies_to_add) :
              FilledId(loc.competencies_to_add[i].employee_empid)
    /\ run.kind = "csv_row" =>
          \A i \in 1..Len(loc.manager_employees_to_add) :
              LET m == loc.manager_employees_to_add[i] IN
              /\ FilledId(m.manager_empid) /\ FilledId(m.employee_empid)
              /\ m.manager_is_trainer \in BOOLEAN
              /\ m.employee_is_trainer \in BOOLEAN

\* C30 witness: the Employee Competency loop has accepted a row whose id
\* came as the float 7.0 and handed over the record with the id "7".
C30_Witness ==
    /\ run.kind = "competency_row" /\ pc = "done"
    /\ run.row.employee_empid = NumCell(<<"7", ".", "0">>)
    /\ loc.competencies_to_add = <<[employee_empid |-> <<"7">>]>>

====
